---- MODULE Spec2Model ----
(***************************************************************************)
(* Webhook ingestion: lambda_handler of webhook_processor.py as a state    *)
(* machine over the raw-audit bucket, the processed bucket (master and     *)
(* store catalogs), the DynamoDB event registry and the SNS refresh topic. *)
(* Every external call of the handler is one atomic step of one worker.    *)
(***************************************************************************)
EXTENDS Integers, Sequences, FiniteSets, TLC

(***************************************************************************)
(* JSON values.  A Python dict is an insertion-ordered sequence of         *)
(* key/value pairs, a list a sequence, None is JNull.                      *)
(***************************************************************************)
JNull == [t |-> "null"]
JStr(s) == [t |-> "str", s |-> s]
JNum(n) == [t |-> "num", n |-> n]
JBool(b) == [t |-> "bool", b |-> b]
JList(q) == [t |-> "list", l |-> q]
JDict(q) == [t |-> "dict", d |-> q]
KV(k, v) == [k |-> k, v |-> v]

IsStr(j) == j.t = "str"
IsDict(j) == j.t = "dict"
IsList(j) == j.t = "list"

\* key in d
Has(j, k) == \E i \in 1..Len(j.d) : j.d[i].k = k
\* d[key]
Get(j, k) == j.d[CHOOSE i \in 1..Len(j.d) : j.d[i].k = k].v
\* d.get(key)
GetOr(j, k) == IF Has(j, k) THEN Get(j, k) ELSE JNull
\* d[key] = v on a dict: replaces in place, else appends
DictSet(j, k, v) ==
    IF Has(j, k)
    THEN JDict([i \in 1..Len(j.d) |-> IF j.d[i].k = k THEN KV(k, v) ELSE j.d[i]])
    ELSE JDict(Append(j.d, KV(k, v)))

\* Python truthiness of a JSON value
Truthy(j) ==
    CASE j.t = "null" -> FALSE
      [] j.t = "str" -> j.s # ""
      [] j.t = "num" -> j.n # 0
      [] j.t = "bool" -> j.b
      [] j.t = "list" -> Len(j.l) > 0
      [] j.t = "dict" -> Len(j.d) > 0

\* str(x) and f"{x}" of a JSON scalar
PyStr(j) ==
    CASE j.t = "null" -> "None"
      [] j.t = "str" -> j.s
      [] j.t = "num" -> ToString(j.n)
      [] j.t = "bool" -> IF j.b THEN "True" ELSE "False"
      [] OTHER -> "<repr>"

\* a or b
PyOr(a, b) == IF Truthy(a) THEN a ELSE b

(***************************************************************************)
(* calculate_payload_hash: json.dumps(sort_keys=True) forgets the key      *)
(* order of every dict and keeps the order of every list; SHA-256 is taken *)
(* to be collision free, so the digest is the canonical form itself.       *)
(***************************************************************************)
RECURSIVE Canon(_)
Canon(j) ==
    CASE j.t = "dict" ->
           [t |-> "dict",
            m |-> [k \in {j.d[i].k : i \in 1..Len(j.d)} |-> Canon(Get(j, k))]]
      [] j.t = "list" -> [t |-> "list", l |-> [i \in 1..Len(j.l) |-> Canon(j.l[i])]]
      [] OTHER -> j

\* a serialisation that keeps the key order in which the payload was written
HashAsWritten(payload) == payload

calculate_payload_hash(payload) == Canon(payload)

(***************************************************************************)
(* Identity extractors.                                                    *)
(***************************************************************************)
get_store_id(payload) ==
    LET top == IF Has(payload, "store_id") THEN Get(payload, "store_id") ELSE JNull
        fromProducts ==
            IF Has(payload, "products") /\ IsDict(Get(payload, "products"))
               /\ Has(Get(payload, "products"), "store_id")
               /\ IsStr(Get(Get(payload, "products"), "store_id"))
            THEN Get(Get(payload, "products"), "store_id")
            ELSE JNull
    IN  IF Has(payload, "store_id") /\ IsStr(top) THEN top
        ELSE IF Has(payload, "store_id") /\ IsDict(top) /\ Has(top, "id") THEN Get(top, "id")
        ELSE fromProducts

get_product_id(payload) ==
    IF Has(payload, "products") /\ IsDict(Get(payload, "products"))
    THEN LET products == Get(payload, "products")
         IN  IF Has(products, "product_id") THEN JStr(PyStr(Get(products, "product_id")))
             ELSE IF Has(products, "id") THEN JStr(PyStr(Get(products, "id")))
             ELSE JNull
    ELSE JNull

get_store_domain(payload) ==
    LET sid == IF Has(payload, "store_id") THEN Get(payload, "store_id") ELSE JNull
    IN  IF Has(payload, "store_domain") THEN JStr(PyStr(Get(payload, "store_domain")))
        ELSE IF IsDict(sid) /\ Has(sid, "domain") THEN JStr(PyStr(Get(sid, "domain")))
        ELSE IF IsDict(sid) /\ Has(sid, "store_domain")
             THEN JStr(PyStr(Get(sid, "store_domain")))
        ELSE IF Has(payload, "products") /\ IsDict(Get(payload, "products"))
                /\ Has(Get(payload, "products"), "store_domain")
             THEN JStr(PyStr(Get(Get(payload, "products"), "store_domain")))
        ELSE JNull

\* company_id is the store_id
get_company_id(payload) == get_store_id(payload)

(***************************************************************************)
(* detect_event_type.  On a products value that is not a dict the          *)
(* expression `isinstance(..) and .. or products.get('product_id')` calls  *)
(* .get on it and raises.                                                  *)
(***************************************************************************)
VerbatimTag(tag) == tag
event_type_map(tag) ==
    CASE tag = "product_update" -> "product_update"
      [] tag = "product_deletion" -> "product_delete"
      [] tag = "new_product" -> "product_create"
      [] tag = "new_store" -> "store_create"
      [] tag = "deleted_store" -> "store_delete"
      [] tag = "updated_store" -> "store_update"
      [] OTHER -> tag

HasExplicitTag(payload) ==
    /\ Has(payload, "event_type")
    /\ IsStr(Get(payload, "event_type"))
    /\ Get(payload, "event_type").s # ""

detect_raises(payload) ==
    /\ ~HasExplicitTag(payload)
    /\ Has(payload, "products")
    /\ ~IsDict(Get(payload, "products"))

detect_event_type(payload) ==
    IF HasExplicitTag(payload) THEN event_type_map(Get(payload, "event_type").s)
    ELSE IF Has(payload, "products")
    THEN LET products == Get(payload, "products")
         IN  IF Truthy(GetOr(products, "archived_at")) THEN "product_delete"
             ELSE IF Truthy(GetOr(products, "id")) \/ Truthy(GetOr(products, "product_id"))
                  THEN "product_update"
             ELSE "product_create"
    ELSE IF Has(payload, "store_id")
    THEN LET store_id == Get(payload, "store_id")
         IN  IF Truthy(store_id) /\ IsDict(store_id)
             THEN IF Truthy(GetOr(store_id, "archived_at")) THEN "store_delete"
                  ELSE IF Truthy(GetOr(store_id, "id")) THEN "store_update"
                  ELSE "store_create"
             ELSE IF IsStr(store_id) THEN "store_update"
             ELSE "unknown"
    ELSE "unknown"

KnownTargetsOnly(event_type) ==
    IF event_type \in {"product_create", "product_update", "product_delete"}
    THEN "product-service"
    ELSE IF event_type \in {"store_create", "store_update", "store_delete"}
    THEN "store-service"
    ELSE IF event_type = "unknown" THEN "default-handler"
    ELSE ""
get_routing_target(event_type) ==
    IF event_type \in {"product_create", "product_update", "product_delete"}
    THEN "product-service"
    ELSE IF event_type \in {"store_create", "store_update", "store_delete"}
    THEN "store-service"
    ELSE "default-handler"

(***************************************************************************)
(* strip_fields: deep_copy_and_strip carries a context down the payload    *)
(* and drops the keys FIELDS_TO_STRIP lists for the context of each dict.  *)
(***************************************************************************)
SameFieldsEverywhere(context) ==
    IF context \in {"products", "product_variants", "categories"}
    THEN {"created_at", "updated_at", "archived_at", "image_url", "stock_quantity",
          "is_default", "stockStatus", "lab_test_codes_id", "service_product_id",
          "cpr_price", "user_id", "last_modified", "image"}
    ELSE {}
FIELDS_TO_STRIP(context) ==
    CASE context = "products" -> {"created_at", "updated_at", "archived_at"}
      [] context = "product_variants" ->
           {"image_url", "stock_quantity", "is_default", "stockStatus",
            "lab_test_codes_id", "service_product_id", "cpr_price", "archived_at"}
      [] context = "categories" -> {"user_id", "created_at", "last_modified", "image"}
      [] OTHER -> {}

\* sub in s, for two strings
Substring(sub, s) ==
    \E i \in 1..(Len(s) - Len(sub) + 1) : SubSeq(s, i, i + Len(sub) - 1) = sub

\* key in item, for the values the scan of line 72 meets: a substring test
\* on a string, membership on a list, a key test on a dict
PyIn(key, item) ==
    CASE item.t = "str" -> Substring(key, item.s)
      [] item.t = "list" -> \E i \in 1..Len(item.l) : item.l[i] = JStr(key)
      [] item.t = "dict" -> Has(item, key)
      [] OTHER -> FALSE
\* ... and a TypeError on a number, a boolean or None
PyInRaises(item) == item.t \in {"num", "bool", "null"}

\* any('product_id' in item for item in obj.values()): true at the first
\* value holding it, a TypeError at the first value that cannot be searched
AnyHoldsProductId(obj) ==
    \E i \in 1..Len(obj.d) :
        /\ PyIn("product_id", obj.d[i].v)
        /\ \A j \in 1..(i - 1) : ~PyInRaises(obj.d[j].v)
AnyRaises(obj) ==
    \E i \in 1..Len(obj.d) :
        /\ PyInRaises(obj.d[i].v)
        /\ \A j \in 1..(i - 1) : ~PyIn("product_id", obj.d[j].v)

\* lines 69-77
current_context(obj, context) ==
    IF \/ Has(obj, "product_variants")
       \/ context = "products" /\ AnyHoldsProductId(obj)
    THEN context
    ELSE IF context = "products" /\ Has(obj, "id") /\ Has(obj, "name")
            /\ Has(obj, "is_featured")
    THEN "categories"
    ELSE context

\* lines 88-94
next_context(key, current) ==
    IF key \in {"product_variants", "categories", "products"} THEN key ELSE current

\* lines 102-112: the context of the items of a list
item_context(obj, context) ==
    IF context = "products" /\ Len(obj.l) > 0 /\ IsDict(obj.l[1])
    THEN IF Has(obj.l[1], "product_id") THEN "product_variants"
         ELSE IF Has(obj.l[1], "is_featured") THEN "categories"
         ELSE context
    ELSE context

RECURSIVE deep_copy_and_strip(_, _)
deep_copy_and_strip(obj, context) ==
    CASE obj.t = "dict" ->
           LET cc == current_context(obj, context)
               Kept(kv) == kv.k \notin FIELDS_TO_STRIP(cc)
               kept == SelectSeq(obj.d, Kept)
           IN  JDict([i \in 1..Len(kept) |->
                        KV(kept[i].k,
                           IF kept[i].v.t \in {"dict", "list"}
                           THEN deep_copy_and_strip(kept[i].v, next_context(kept[i].k, cc))
                           ELSE kept[i].v)])
      [] obj.t = "list" ->
           JList([i \in 1..Len(obj.l) |->
                    deep_copy_and_strip(obj.l[i], item_context(obj, context))])
      [] OTHER -> obj

\* the TypeError of line 72 somewhere on the way down
RECURSIVE strip_raises(_, _)
strip_raises(obj, context) ==
    CASE obj.t = "dict" ->
           \/ ~Has(obj, "product_variants") /\ context = "products" /\ AnyRaises(obj)
           \/ LET cc == current_context(obj, context)
              IN  \E i \in 1..Len(obj.d) :
                      /\ obj.d[i].k \notin FIELDS_TO_STRIP(cc)
                      /\ strip_raises(obj.d[i].v, next_context(obj.d[i].k, cc))
      [] obj.t = "list" ->
           \E i \in 1..Len(obj.l) : strip_raises(obj.l[i], item_context(obj, context))
      [] OTHER -> FALSE

strip_fields(payload) == deep_copy_and_strip(payload, "root")


(***************************************************************************)
(* Bounds and the payloads delivered by the transport.                     *)
(***************************************************************************)
MaxTime == 1
MaxFaults == 1
MaxSoloFaults == 2

Workers == {"w1", "w2"}
\* workers are interchangeable: the transport uses them in this order
Earlier(v, w) == v = "w1" /\ w = "w2"

P_new_product ==
    JDict(<<KV("event_type", JStr("new_product")),
            KV("store_id", JStr("s1")),
            KV("products", JDict(<<KV("product_id", JStr("p1")),
                                   KV("product_variants",
                                      JList(<<JDict(<<KV("id", JStr("v1")), KV("price", JNum(10))>>),
                                              JDict(<<KV("id", JStr("v2")), KV("price", JNum(20))>>)>>))>>))>>)

P_legacy_update ==
    JDict(<<KV("products", JDict(<<KV("id", JStr("p1")),
                                   KV("store_id", JStr("s1")),
                                   KV("product_variants",
                                      JList(<<JDict(<<KV("id", JStr("v1")), KV("price", JNum(0))>>),
                                              JDict(<<KV("id", JStr("v2")), KV("price", JNum(5))>>)>>))>>))>>)

P_product_deletion ==
    JDict(<<KV("event_type", JStr("product_deletion")),
            KV("store_id", JStr("s1")),
            KV("products", JDict(<<KV("product_id", JStr("p1"))>>))>>)

P_new_store ==
    JDict(<<KV("event_type", JStr("new_store")),
            KV("store_id", JStr("s1")),
            KV("store_domain", JStr("shop.example"))>>)

\* a product update whose top-level store_id is the empty string
P_blank_store ==
    JDict(<<KV("event_type", JStr("product_update")), KV("store_id", JStr("")),
            KV("products", JDict(<<KV("product_id", JStr("p1"))>>))>>)

Payloads == {P_new_product, P_legacy_update, P_product_deletion, P_new_store,
             P_blank_store}

Digests == {calculate_payload_hash(p) : p \in Payloads}

ProductEvents == {"product_create", "product_update", "product_delete"}
UpsertEvents == {"product_create", "product_update"}

(***************************************************************************)
(* State.                                                                  *)
(***************************************************************************)
VARIABLES
    now,              \* datetime.utcnow(), in clock units
    rawBucket,        \* S3_RAW_AUDIT_BUCKET: set of [key, body]
    processedBucket,  \* S3_PROCESSED_BUCKET: set of [key, body]
    ledger,           \* DynamoDB event registry: set of items
    published,        \* store ids of the refresh messages published to SNS
    inv,              \* per worker: the locals of its lambda_handler invocation
    racy,             \* digests whose invocations overlapped or whose lookup failed
    nSuccess,         \* per digest: invocations that returned success
    nFaults,          \* failures of external calls injected so far
    lastUpsert,       \* per master key: what the latest successful upsert wrote
    call              \* a call of one of the module's functions on its own

vars == <<now, rawBucket, processedBucket, ledger, published, inv,
          racy, nSuccess, nFaults, lastUpsert, call>>

NoKey == [kind |-> "none"]
NoEvent == [h |-> JNull, secs |-> -1]
\* an event id inside a JSON body
JEid(e) == [t |-> "eid", e |-> e]
NoResult == [status |-> "none"]

Idle ==
    [pc |-> "idle", payload |-> JNull, payload_hash |-> JNull, existing_event |-> JNull,
     event_id |-> NoEvent, event_type |-> "", store_id |-> JNull, product_id |-> JNull,
     raw_s3_key |-> NoKey, metadata_s3_key |-> NoKey, master_catalog_key |-> NoKey,
     store_catalog_key |-> NoKey, store_product |-> JNull, result |-> NoResult,
     faults |-> {}, after_success |-> FALSE]

\* the date part of an object key; the clock's last unit is the next day
Date(t) == IF t = MaxTime THEN 1 ELSE 0

\* {store_id}/{event_type}/{yyyy}/{mm}/{dd}/{event_id}{suffix}
EventKey(store, event_type, t, event_id, suffix) ==
    [kind |-> "event", store |-> store, event_type |-> event_type, date |-> Date(t),
     event_id |-> event_id, suffix |-> suffix]
\* master/products/{product_id}.json
MasterKey(product_id) == [kind |-> "master", product_id |-> PyStr(product_id)]
\* stores/{store_id}/products/{product_id}.json
StoreKey(store_id, product_id) ==
    [kind |-> "store", store_id |-> PyStr(store_id), product_id |-> PyStr(product_id)]

\* s3 put_object, get_object, head_object, delete_object, list_objects_v2
put_object(bucket, key, body) ==
    {o \in bucket : o.key # key} \cup {[key |-> key, body |-> body]}
HasObject(bucket, key) == \E o \in bucket : o.key = key
get_object(bucket, key) == (CHOOSE o \in bucket : o.key = key).body
delete_object(bucket, key) == {o \in bucket : o.key # key}
ListNothing(bucket, store, event_type) == {}
list_objects_v2(bucket, store, event_type) ==
    {o \in bucket : o.key.kind = "event" /\ o.key.store = store
                    /\ o.key.event_type = event_type}

\* no function is being called on its own
NoCall == [fn |-> "none"]

Init ==
    /\ now = 0
    /\ rawBucket = {}
    /\ processedBucket = {}
    /\ ledger = {}
    /\ published = <<>>
    /\ inv = [w \in Workers |-> Idle]
    /\ racy = [h \in Digests |-> FALSE]
    /\ nSuccess = [h \in Digests |-> 0]
    /\ nFaults = 0
    /\ lastUpsert = {}
    /\ call = NoCall

Running(w) == inv[w].pc \notin {"idle", "done"}

\* the outcomes of an external call: it fails only within the failure budget;
\* external calls fail at most MaxSoloFaults times while a single invocation
\* has arrived, and at most MaxFaults times once both have
FaultBudget == IF \E v \in Workers : inv[v].pc = "idle" THEN MaxSoloFaults ELSE MaxFaults
Failures == IF nFaults < FaultBudget THEN BOOLEAN ELSE {FALSE}

\* the worker's locals after one step; a step that records a failure counts it
Step(w, rec) ==
    /\ inv' = [inv EXCEPT ![w] = rec]
    /\ nFaults' = IF rec.faults \ inv[w].faults # {} THEN nFaults + 1 ELSE nFaults
    /\ UNCHANGED call

Finish(w, res) == [inv[w] EXCEPT !.pc = "done", !.result = res]

ErrorResult == [status |-> "error"]

(***************************************************************************)
(* Where the handler goes next (lines 898-1004).                           *)
(***************************************************************************)
PropagateWithoutStore(l) ==
    IF l.event_type \in UpsertEvents /\ Truthy(l.product_id)
    THEN "copy_to_store_catalog"
    ELSE IF l.event_type = "product_delete" /\ Truthy(l.product_id)
    THEN "delete_from_store_catalog"
    ELSE "register_event"

AfterMaster(l) ==
    IF l.event_type \in UpsertEvents /\ Truthy(l.product_id) /\ Truthy(l.store_id)
    THEN "copy_to_store_catalog"
    ELSE IF l.event_type = "product_delete" /\ Truthy(l.product_id) /\ Truthy(l.store_id)
    THEN "delete_from_store_catalog"
    ELSE "register_event"

AfterMetadata(l) ==
    IF l.event_type \in UpsertEvents /\ Truthy(l.product_id)
    THEN "store_to_master_catalog"
    ELSE AfterMaster(l)

AfterRaw(l) ==
    IF l.event_type = "store_create" THEN "store_store_metadata" ELSE AfterMetadata(l)

AfterStore(l) ==
    IF Truthy(l.product_id) /\ l.event_type \in ProductEvents
    THEN "check_product_exists"
    ELSE "store_raw_payload"

AfterClassify(l) ==
    IF Truthy(l.store_id) THEN "check_store_exists" ELSE AfterStore(l)


(***************************************************************************)
(* lambda_handler, lines 850-896: one invocation per event.  The transport *)
(* hands a payload to a fresh worker, which hashes it, asks the registry   *)
(* whether the digest is known (check_idempotency) and, if not, derives    *)
(* the event id, the event type and the identifiers.  The clock may have   *)
(* advanced since the previous arrival (the first arrival is at time 0).   *)
(***************************************************************************)
\* processing_timestamp is utcnow().isoformat(): the second and, within it, a
\* microsecond part that no two registrations share
Timestamp(t, items) == [secs |-> t, micros |-> Cardinality(items)]
NotAfter(a, b) == a.secs < b.secs \/ (a.secs = b.secs /\ a.micros <= b.micros)

\* table.query(payload_hash = :hash, Limit=1, ScanIndexForward=False)
query(items, h) ==
    LET hits == {i \in items : i.payload_hash = h}
    IN  IF hits = {} THEN JNull
        ELSE CHOOSE i \in hits :
                 \A j \in hits : NotAfter(j.processing_timestamp, i.processing_timestamp)

\* check_idempotency: a failed query is logged and answers None
NeverFound(items, h, failed) == JNull
StaleOnFailure(items, h, failed) ==
    IF failed THEN [event_id |-> NoEvent, processing_timestamp |-> Timestamp(0, {})]
    ELSE query(items, h)
check_idempotency(items, h, failed) == IF failed THEN JNull ELSE query(items, h)

\* line 875: if existing_event
NeverDuplicate(existing) == FALSE
IsDuplicate(existing) == existing # JNull

DuplicateResult(existing) ==
    [status |-> "duplicate", event_id |-> existing.event_id,
     original_processing_timestamp |-> existing.processing_timestamp]

\* lines 887-896, the locals after classification
Classified(l, t) ==
    [l EXCEPT !.event_id = [h |-> l.payload_hash, secs |-> t],
              !.event_type = detect_event_type(l.payload),
              !.store_id = get_store_id(l.payload),
              !.product_id = get_product_id(l.payload)]

lambda_handler(w, p) ==
    /\ inv[w].pc = "idle"
    /\ \A v \in Workers : Earlier(v, w) => inv[v].pc # "idle"
    /\ \E t \in {now, now + 1}, failed \in Failures :
         LET h == calculate_payload_hash(p)
             existing == check_idempotency(ledger, h, failed)
             l == [Idle EXCEPT !.payload = p, !.payload_hash = h,
                               !.after_success = (nSuccess[h] > 0),
                               !.existing_event = existing,
                               !.faults = IF failed THEN {"query"} ELSE {}]
         IN  /\ t <= MaxTime
             /\ t # now => \E v \in Workers : inv[v].pc # "idle"
             /\ now' = t
             /\ racy' = [racy EXCEPT ![h] =
                           \/ @
                           \/ failed
                           \/ \E v \in Workers \ {w} : Running(v) /\ inv[v].payload_hash = h]
             /\ IF IsDuplicate(existing)
                THEN Step(w, [l EXCEPT !.pc = "done", !.result = DuplicateResult(existing)])
                ELSE IF detect_raises(p)
                THEN Step(w, [l EXCEPT !.pc = "done", !.result = ErrorResult,
                                       !.event_id = [h |-> h, secs |-> t]])
                ELSE LET c == Classified(l, t)
                     IN  Step(w, [c EXCEPT !.pc = AfterClassify(c)])
    /\ UNCHANGED <<rawBucket, processedBucket, ledger, published, nSuccess, lastUpsert>>

(***************************************************************************)
(* Failures.  The handler wraps store and product bootstrap, the metadata  *)
(* write, the master upsert, propagation, the delete and the refresh in    *)
(* try/except blocks that log and go on (lines 898-998, 757-759); the raw  *)
(* write (line 921) and the registration (line 1005) are not wrapped, so   *)
(* their exception reaches the handler's except (lines 1043-1053).         *)
(***************************************************************************)
\* l: the locals as they are when the step succeeds or is skipped
RetriedFailure(l, fault) ==
    [l EXCEPT !.pc = "store_raw_payload", !.faults = @ \cup {fault}]
FatalFailure(l, fault) ==
    [l EXCEPT !.pc = "done", !.result = ErrorResult, !.faults = @ \cup {fault}]
LoggedFailure(l, fault) == [l EXCEPT !.faults = @ \cup {fault}]

\* line 921: store_raw_payload re-raises (lines 521-523)
IgnoredRawWrite(l) == [l EXCEPT !.pc = AfterRaw(l), !.faults = @ \cup {"put_raw"}]
FailedRawWrite(l) == [l EXCEPT !.pc = "done", !.result = ErrorResult,
                               !.faults = @ \cup {"put_raw"}]

(***************************************************************************)
(* Bootstrap store: check_store_exists, create_store_if_not_exists.        *)
(***************************************************************************)
check_store_exists(w) ==
    /\ inv[w].pc = "check_store_exists"
    /\ \E failed \in Failures :
         LET exists == /\ ~failed
                       /\ list_objects_v2(rawBucket, PyStr(inv[w].store_id),
                                          "store_create") # {}
         IN  Step(w, [inv[w] EXCEPT
                        !.pc = IF exists THEN AfterStore(inv[w])
                               ELSE "create_store_if_not_exists",
                        !.faults = IF failed THEN @ \cup {"list"} ELSE @])
    /\ UNCHANGED <<now, rawBucket, processedBucket, ledger, published,
                   racy, nSuccess, lastUpsert>>

StoreBootstrapMetadata(l, t) ==
    JDict(<<KV("metadataAttributes",
               JDict(<<KV("store", PyOr(get_store_domain(l.payload), l.store_id)),
                       KV("store_id", l.store_id),
                       KV("created_at", JNum(t)),
                       KV("created_by_event", JEid(l.event_id))>>))>>)

\* lines 312-320: the put is not conditional on what the bucket holds by now
WriteIfStoreAbsent(bucket, key, body) ==
    IF list_objects_v2(bucket, key.store, "store_create") # {} THEN bucket
    ELSE put_object(bucket, key, body)
BootstrapWrite(bucket, key, body) == put_object(bucket, key, body)

create_store_if_not_exists(w) ==
    /\ inv[w].pc = "create_store_if_not_exists"
    /\ \E failed \in Failures :
         /\ rawBucket' =
              IF failed THEN rawBucket
              ELSE BootstrapWrite(rawBucket,
                              EventKey(PyStr(inv[w].store_id), "store_create", now,
                                       inv[w].event_id, ".metadata.json"),
                              StoreBootstrapMetadata(inv[w], now))
         /\ LET l == [inv[w] EXCEPT !.pc = AfterStore(inv[w])]
            IN  Step(w, IF failed THEN LoggedFailure(l, "put_store") ELSE l)
    /\ UNCHANGED <<now, processedBucket, ledger, published, racy, nSuccess, lastUpsert>>

(***************************************************************************)
(* Bootstrap product: check_product_exists, create_product_if_not_exists.  *)
(* head_object answers found, 404, another ClientError (taken as absent),  *)
(* or raises something else, which line 914 swallows.                      *)
(***************************************************************************)
check_product_exists(w) ==
    /\ inv[w].pc = "check_product_exists"
    /\ \E outcome \in {"answer"} \cup (IF nFaults < FaultBudget
                                        THEN {"client_error", "raise"} ELSE {}) :
         LET exists == /\ outcome = "answer"
                       /\ HasObject(processedBucket, MasterKey(inv[w].product_id))
         IN  Step(w, [inv[w] EXCEPT
                        !.pc = IF exists \/ outcome = "raise" THEN "store_raw_payload"
                               ELSE "create_product_if_not_exists",
                        !.faults = IF outcome = "answer" THEN @ ELSE @ \cup {"head"}])
    /\ UNCHANGED <<now, rawBucket, processedBucket, ledger, published,
                   racy, nSuccess, lastUpsert>>

\* lines 350-357
product_data(product_id, payload, t) ==
    IF Has(payload, "products") /\ IsDict(Get(payload, "products"))
    THEN Get(payload, "products")
    ELSE JDict(<<KV("product_id", product_id), KV("created_at", JNum(t))>>)

create_product_if_not_exists(w) ==
    /\ inv[w].pc = "create_product_if_not_exists"
    /\ \E failed \in Failures :
         /\ processedBucket' =
              IF failed THEN processedBucket
              ELSE put_object(processedBucket, MasterKey(inv[w].product_id),
                              JDict(<<KV("products",
                                         product_data(inv[w].product_id, inv[w].payload,
                                                      now))>>))
         /\ LET l == [inv[w] EXCEPT !.pc = "store_raw_payload"]
            IN  Step(w, IF failed THEN LoggedFailure(l, "put_product") ELSE l)
    /\ UNCHANGED <<now, rawBucket, ledger, published, racy, nSuccess, lastUpsert>>


(***************************************************************************)
(* store_raw_payload (line 921): its failure is fatal.                     *)
(***************************************************************************)
RawStore(l) ==
    PyStr(IF l.store_id = JNull THEN PyOr(get_store_id(l.payload), JStr("unknown"))
          ELSE l.store_id)

\* line 509: {store_id}/{event_type}/{year}/{month}/{day}/{event_id}.json
RawKey(l, t) == EventKey(RawStore(l), l.event_type, t, l.event_id, ".json")

store_raw_payload(w) ==
    /\ inv[w].pc = "store_raw_payload"
    /\ LET key == RawKey(inv[w], now)
       IN  \E failed \in Failures :
             IF failed
             THEN /\ Step(w, FailedRawWrite(inv[w]))
                  /\ UNCHANGED rawBucket
             ELSE /\ rawBucket' = put_object(rawBucket, key, inv[w].payload)
                  /\ Step(w, [inv[w] EXCEPT !.raw_s3_key = key, !.pc = AfterRaw(inv[w])])
    /\ UNCHANGED <<now, processedBucket, ledger, published, racy, nSuccess, lastUpsert>>

(***************************************************************************)
(* store_store_metadata (lines 923-937), store_create events only.         *)
(***************************************************************************)
StoreCreateMetadata(l) ==
    LET base == <<KV("store", PyOr(get_store_domain(l.payload), l.store_id)),
                  KV("store_id", l.store_id)>>
    IN  JDict(<<KV("metadataAttributes",
                   JDict(IF Truthy(l.product_id)
                         THEN Append(base, KV("product_id", l.product_id))
                         ELSE base))>>)

\* line 571: the f-string formats the store_id it is given, None included
MetadataKey(l, t) ==
    EventKey(PyStr(l.store_id), l.event_type, t, l.event_id, ".metadata.json")

store_store_metadata(w) ==
    /\ inv[w].pc = "store_store_metadata"
    /\ LET key == MetadataKey(inv[w], now)
       IN  \E failed \in Failures :
             IF failed
             THEN /\ Step(w, LoggedFailure([inv[w] EXCEPT !.pc = AfterMetadata(inv[w])],
                                           "put_metadata"))
                  /\ UNCHANGED rawBucket
             ELSE /\ rawBucket' = put_object(rawBucket, key, StoreCreateMetadata(inv[w]))
                  /\ Step(w, [inv[w] EXCEPT !.metadata_s3_key = key,
                                            !.pc = AfterMetadata(inv[w])])
    /\ UNCHANGED <<now, processedBucket, ledger, published, racy, nSuccess, lastUpsert>>

(***************************************************************************)
(* store_to_master_catalog (lines 943-950): an unconditional put of the    *)
(* raw payload under master/products/{product_id}.json.                    *)
(***************************************************************************)
PutIfAbsent(bucket, key, body) ==
    IF HasObject(bucket, key) THEN bucket ELSE put_object(bucket, key, body)
MasterWrite(bucket, key, body) == put_object(bucket, key, body)

store_to_master_catalog(w) ==
    /\ inv[w].pc = "store_to_master_catalog"
    /\ LET key == MasterKey(inv[w].product_id)
       IN  \E failed \in Failures :
             IF failed
             THEN /\ Step(w, LoggedFailure([inv[w] EXCEPT !.pc = AfterMaster(inv[w])],
                                           "put_master"))
                  /\ UNCHANGED <<processedBucket, lastUpsert>>
             ELSE /\ processedBucket' = MasterWrite(processedBucket, key, inv[w].payload)
                  /\ lastUpsert' = put_object(lastUpsert, key, inv[w].payload)
                  /\ Step(w, [inv[w] EXCEPT !.master_catalog_key = key,
                                            !.pc = AfterMaster(inv[w])])
    /\ UNCHANGED <<now, rawBucket, ledger, published, racy, nSuccess>>

(***************************************************************************)
(* Propagation (lines 952-988) and copy_to_store_catalog.                  *)
(***************************************************************************)
\* variants[0] of the triggering payload, when lines 957-959 reach it
FirstVariant(payload) ==
    LET products == Get(payload, "products")
        variants == GetOr(products, "product_variants")
    IN  IF Has(payload, "products") /\ Has(products, "product_variants")
           /\ Truthy(variants) /\ IsList(variants)
        THEN variants.l[1]
        ELSE JDict(<<>>)

\* 'price' in variants[0] raises on a number, a boolean or None
modifications_raise(payload) == FirstVariant(payload).t \in {"num", "bool", "null"}

\* modifications.get('price')
modifications_price(payload) ==
    LET first == FirstVariant(payload)
    IN  IF IsDict(first) /\ Has(first, "price") THEN Get(first, "price") ELSE JNull

\* line 682: if ... and modifications.get('price')
PriceApplies(products, price) == Has(products, "product_variants") /\ Truthy(price)

\* lines 677, 683: the master object is unusable
copy_raises(master_product, price) ==
    \/ ~IsDict(master_product)
    \/ ~Has(master_product, "products")
    \/ ~IsDict(Get(master_product, "products"))
    \/ /\ PriceApplies(Get(master_product, "products"), price)
       /\ Get(Get(master_product, "products"), "product_variants").t
             \in {"num", "bool", "null"}

\* lines 678-688
store_product(master_product, store_id, price) ==
    LET products == Get(master_product, "products")
        variants == GetOr(products, "product_variants")
        priced ==
            IF PriceApplies(products, price) /\ IsList(variants)
            THEN DictSet(products, "product_variants",
                         JList([i \in 1..Len(variants.l) |->
                                  IF IsDict(variants.l[i])
                                  THEN DictSet(variants.l[i], "price", price)
                                  ELSE variants.l[i]]))
            ELSE products
    IN  DictSet(master_product, "products", DictSet(priced, "store_id", store_id))

\* lines 705-709 and 963: NoSuchKey is logged, copy_to_store_catalog returns
\* None and the handler goes on to the registration
CreatedFromPayload(l) == [l EXCEPT !.pc = "put_store_catalog", !.store_product = l.payload]
NotFound(l) == [l EXCEPT !.pc = "register_event"]

\* lines 955-961 and 669-688: fetch the master object and build the copy
copy_to_store_catalog(w) ==
    /\ inv[w].pc = "copy_to_store_catalog"
    /\ LET key == MasterKey(inv[w].product_id)
           price == modifications_price(inv[w].payload)
       IN  \E failed \in Failures :
             IF modifications_raise(inv[w].payload)
             THEN ~failed /\ Step(w, [inv[w] EXCEPT !.pc = "register_event"])
             ELSE IF failed
             THEN Step(w, LoggedFailure([inv[w] EXCEPT !.pc = "register_event"],
                                        "get_master"))
             ELSE IF ~HasObject(processedBucket, key)
             THEN Step(w, NotFound(inv[w]))
             ELSE IF copy_raises(get_object(processedBucket, key), price)
             THEN Step(w, [inv[w] EXCEPT !.pc = "register_event"])
             ELSE Step(w, [inv[w] EXCEPT
                             !.pc = "put_store_catalog",
                             !.store_product =
                                 store_product(get_object(processedBucket, key),
                                               inv[w].store_id, price)])
    /\ UNCHANGED <<now, rawBucket, processedBucket, ledger, published,
                   racy, nSuccess, lastUpsert>>

\* lines 962-965, 981-984, 992-996: the refresh follows a store-catalog write
\* or delete that returned
RefreshAlways(ok) == "trigger_kb_refresh"
RefreshOnSuccess(ok) == IF ok THEN "trigger_kb_refresh" ELSE "register_event"

\* lines 690-700: write the copy under stores/{store_id}/products/{product_id}.json
put_store_catalog(w) ==
    /\ inv[w].pc = "put_store_catalog"
    /\ LET key == StoreKey(inv[w].store_id, inv[w].product_id)
       IN  \E failed \in Failures :
             IF failed
             THEN /\ Step(w, LoggedFailure([inv[w] EXCEPT !.pc = RefreshOnSuccess(FALSE)],
                                           "put_store_catalog"))
                  /\ UNCHANGED processedBucket
             ELSE /\ processedBucket' = put_object(processedBucket, key,
                                                   inv[w].store_product)
                  /\ Step(w, [inv[w] EXCEPT !.store_catalog_key = key,
                                            !.pc = RefreshOnSuccess(TRUE)])
    /\ UNCHANGED <<now, rawBucket, ledger, published, racy, nSuccess, lastUpsert>>

(***************************************************************************)
(* delete_from_store_catalog (lines 990-998).                              *)
(***************************************************************************)
\* s3 delete_object of stores/{store_id}/products/{product_id}.json
DeleteEverywhere(bucket, store_id, product_id) ==
    delete_object(delete_object(bucket, StoreKey(store_id, product_id)),
                  MasterKey(product_id))
DeleteStoreEntry(bucket, store_id, product_id) ==
    delete_object(bucket, StoreKey(store_id, product_id))

delete_from_store_catalog(w) ==
    /\ inv[w].pc = "delete_from_store_catalog"
    /\ \E failed \in Failures :
             IF failed
             THEN /\ Step(w, LoggedFailure([inv[w] EXCEPT !.pc = RefreshOnSuccess(FALSE)],
                                           "delete"))
                  /\ UNCHANGED processedBucket
             ELSE /\ processedBucket' = DeleteStoreEntry(processedBucket, inv[w].store_id,
                                                         inv[w].product_id)
                  /\ Step(w, [inv[w] EXCEPT !.pc = RefreshOnSuccess(TRUE)])
    /\ UNCHANGED <<now, rawBucket, ledger, published, racy, nSuccess, lastUpsert>>

(***************************************************************************)
(* trigger_kb_refresh: one SNS publish.  No message goes out when the      *)
(* publish fails or KB_REFRESH_SNS_TOPIC is unset; both are logged only    *)
(* and both are the failed outcome here.                                   *)
(***************************************************************************)
trigger_kb_refresh(w) ==
    /\ inv[w].pc = "trigger_kb_refresh"
    /\ \E failed \in Failures :
         /\ published' = IF failed THEN published ELSE Append(published, inv[w].store_id)
         /\ LET l == [inv[w] EXCEPT !.pc = "register_event"]
            IN  Step(w, IF failed THEN LoggedFailure(l, "publish") ELSE l)
    /\ UNCHANGED <<now, rawBucket, processedBucket, ledger, racy, nSuccess, lastUpsert>>

(***************************************************************************)
(* register_event (lines 1000-1041): put_item, then the success result.    *)
(* An item is keyed by payload_hash and processing_timestamp.              *)
(***************************************************************************)
SevenYears == 7 * 365 * 24 * 60 * 60

Item(l, t, items) ==
    LET base == [payload_hash |-> l.payload_hash,
                 processing_timestamp |-> Timestamp(t, items),
                 event_id |-> l.event_id, event_type |-> l.event_type,
                 s3_key |-> l.raw_s3_key, status |-> "processed",
                 routing_target |-> get_routing_target(l.event_type),
                 ttl |-> t + SevenYears]
    IN  IF Truthy(l.store_id) THEN base @@ [store_id |-> l.store_id] ELSE base

put_item(items, item) ==
    {i \in items : ~(/\ i.payload_hash = item.payload_hash
                     /\ i.processing_timestamp = item.processing_timestamp)}
        \cup {item}

\* a response that reports the catalog locations the event type calls for
OptimisticResult(l) ==
    [status |-> "success", event_id |-> l.event_id, event_type |-> l.event_type,
     routing_target |-> get_routing_target(l.event_type), raw_s3_key |-> l.raw_s3_key,
     payload_hash |-> l.payload_hash,
     store_id |-> IF Truthy(l.store_id) THEN l.store_id ELSE JNull,
     product_id |-> IF Truthy(l.product_id) THEN l.product_id ELSE JNull,
     metadata_s3_key |-> l.metadata_s3_key,
     master_catalog_key |-> IF l.event_type \in UpsertEvents /\ Truthy(l.product_id)
                            THEN MasterKey(l.product_id) ELSE NoKey,
     store_catalog_key |-> l.store_catalog_key]
SuccessResult(l) ==
    [status |-> "success", event_id |-> l.event_id, event_type |-> l.event_type,
     routing_target |-> get_routing_target(l.event_type), raw_s3_key |-> l.raw_s3_key,
     payload_hash |-> l.payload_hash,
     store_id |-> IF Truthy(l.store_id) THEN l.store_id ELSE JNull,
     product_id |-> IF Truthy(l.product_id) THEN l.product_id ELSE JNull,
     metadata_s3_key |-> l.metadata_s3_key,
     master_catalog_key |-> l.master_catalog_key,
     store_catalog_key |-> l.store_catalog_key]

\* lines 809-811 and 1043-1053: a failed put_item is re-raised and reported
SwallowedRegistration(l) == SuccessResult(l)
FailedRegistration(l) == ErrorResult

register_event(w) ==
    /\ inv[w].pc = "register_event"
    /\ \E failed \in Failures :
         IF failed
         THEN /\ Step(w, [inv[w] EXCEPT !.pc = "done",
                                        !.result = FailedRegistration(inv[w]),
                                        !.faults = @ \cup {"put_item"}])
              /\ UNCHANGED <<ledger, nSuccess>>
         ELSE /\ ledger' = put_item(ledger, Item(inv[w], now, ledger))
              /\ Step(w, Finish(w, SuccessResult(inv[w])))
              /\ nSuccess' = [nSuccess EXCEPT ![inv[w].payload_hash] = @ + 1]
    /\ UNCHANGED <<now, rawBucket, processedBucket, published, racy, lastUpsert>>

Next ==
    \/ \E w \in Workers, p \in Payloads : lambda_handler(w, p)
    \/ \E w \in Workers : check_store_exists(w)
    \/ \E w \in Workers : create_store_if_not_exists(w)
    \/ \E w \in Workers : check_product_exists(w)
    \/ \E w \in Workers : create_product_if_not_exists(w)
    \/ \E w \in Workers : store_raw_payload(w)
    \/ \E w \in Workers : store_store_metadata(w)
    \/ \E w \in Workers : store_to_master_catalog(w)
    \/ \E w \in Workers : copy_to_store_catalog(w)
    \/ \E w \in Workers : put_store_catalog(w)
    \/ \E w \in Workers : delete_from_store_catalog(w)
    \/ \E w \in Workers : trigger_kb_refresh(w)
    \/ \E w \in Workers : register_event(w)

Spec == Init /\ [][Next]_vars

\* the steps of one invocation after its arrival
Invocation(w) ==
    \/ check_store_exists(w)
    \/ create_store_if_not_exists(w)
    \/ check_product_exists(w)
    \/ create_product_if_not_exists(w)
    \/ store_raw_payload(w)
    \/ store_store_metadata(w)
    \/ store_to_master_catalog(w)
    \/ copy_to_store_catalog(w)
    \/ put_store_catalog(w)
    \/ delete_from_store_catalog(w)
    \/ trigger_kb_refresh(w)
    \/ register_event(w)

\* the transport delivers an event, and delivers it once more after the
\* first invocation has returned
delivery(w, p) ==
    /\ \A v \in Workers \ {w} : inv[v].pc = "idle" \/ (inv[v].pc = "done" /\ inv[v].payload = p)
    /\ lambda_handler(w, p)

NextFair ==
    \/ \E w \in Workers, p \in Payloads : delivery(w, p)
    \/ \E w \in Workers : Invocation(w)

\* the runtime runs an invocation it has started until the handler returns,
\* and every collaborator call returns or raises; at most one invocation is
\* in progress here, so the fairness is that invocation's
SpecFair == Init /\ [][NextFair]_vars /\ WF_vars(\E w \in Workers : Invocation(w))


(***************************************************************************)
(* The functions on their own: a caller picks an argument, the function    *)
(* returns.  classify is detect_event_type, route is get_routing_target,   *)
(* redact is strip_fields.                                                 *)
(***************************************************************************)
MaxItems == 2

Pending == [t |-> "pending"]
Raised == [t |-> "raised"]

\* payloads for classification: each of event_type, products and store_id is
\* missing or holds one of these values
TagValues ==
    {JStr("product_update"), JStr("product_deletion"), JStr("new_product"),
     JStr("new_store"), JStr("deleted_store"), JStr("updated_store"),
     JStr("custom_event"), JStr(""), JNum(5), JNull}
ProductsValues ==
    {JDict(<<>>),
     JDict(<<KV("id", JStr("p1"))>>),
     JDict(<<KV("product_id", JStr("p1"))>>),
     JDict(<<KV("name", JStr("x"))>>),
     JDict(<<KV("id", JStr("p1")), KV("archived_at", JStr("2024-01-01"))>>),
     JDict(<<KV("id", JStr("p1")), KV("archived_at", JNull)>>),
     JDict(<<KV("name", JStr("x")), KV("archived_at", JStr(""))>>),
     JDict(<<KV("id", JNum(0)), KV("name", JStr("x"))>>),
     JDict(<<KV("product_id", JStr(""))>>),
     JList(<<>>), JStr("p1"), JNum(3), JNull}
StoreValues ==
    {JStr("s1"), JStr(""),
     JDict(<<>>),
     JDict(<<KV("id", JStr("s1"))>>),
     JDict(<<KV("name", JStr("shop"))>>),
     JDict(<<KV("id", JStr("s1")), KV("archived_at", JStr("2024-01-01"))>>),
     JDict(<<KV("id", JStr("s1")), KV("archived_at", JNull)>>),
     JDict(<<KV("name", JStr("shop")), KV("archived_at", JBool(FALSE))>>),
     JDict(<<KV("id", JNum(0)), KV("name", JStr("shop"))>>),
     JList(<<>>), JNum(7), JNull}
Entry(key, values) == {<<>>} \cup {<<KV(key, v)>> : v \in values}
ClassifyInputs ==
    {JDict(a \o b \o c) : a \in Entry("event_type", TagValues),
                          b \in Entry("products", ProductsValues),
                          c \in Entry("store_id", StoreValues)}

RouteInputs ==
    {"product_create", "product_update", "product_delete", "store_create",
     "store_update", "store_delete", "unknown", "", "custom_event", "new_product",
     "Product_Create", "product_create "}

\* payloads of the canonical shape for redaction: a products object with some
\* of the optional fields, a product_variants list and a categories list
Stamp == JStr("2024-01-01T00:00:00Z")
ProductFields ==
    <<KV("created_at", Stamp), KV("user_id", JStr("u1")), KV("updated_at", Stamp),
      KV("archived_at", JNull)>>
Variants ==
    {JDict(<<KV("id", JStr("v1")), KV("product_id", JStr("p1")), KV("price", JNum(10)),
             KV("image_url", JStr("http://img")), KV("sku", JStr("SKU")),
             KV("stock_quantity", JNum(100)), KV("is_default", JBool(TRUE)),
             KV("stockStatus", JStr("In Stock")), KV("status", JStr("NEW")),
             KV("archived_at", JNull),
             KV("lab_test_codes_id", JList(<<JStr("l1")>>)),
             KV("service_product_id", JStr("sp1")), KV("cpr_price", JNum(9))>>),
     JDict(<<KV("id", JStr("v2")), KV("price", JNum(0))>>),
     JDict(<<KV("id", JStr("v3")), KV("product_id", JStr("p1")),
             KV("created_at", Stamp), KV("user_id", JStr("u1")),
             KV("archived_at", Stamp)>>)}
Categories ==
    {JDict(<<KV("id", JStr("c1")), KV("name", JStr("Category")),
             KV("is_featured", JBool(TRUE)), KV("store_id", JStr("s1")),
             KV("user_id", JStr("u1")), KV("created_at", Stamp),
             KV("last_modified", Stamp), KV("image", JStr("http://cat"))>>),
     JDict(<<KV("id", JStr("c2")), KV("name", JStr("Plain"))>>),
     JDict(<<KV("id", JStr("c3")), KV("is_featured", JBool(FALSE)),
             KV("updated_at", Stamp), KV("archived_at", JNull),
             KV("image", JNull)>>)}
Lists(S) == UNION {[1..n -> S] : n \in 0..MaxItems}
RECURSIVE Pick(_, _)
\* the subsequence of q at the positions in keep
Pick(q, keep) ==
    IF q = <<>> THEN <<>>
    ELSE LET rest == Pick(Tail(q), {i - 1 : i \in keep \ {1}})
         IN  IF 1 \in keep THEN <<Head(q)>> \o rest ELSE rest
CanonicalPayload(keep, variants, categories) ==
    JDict(<<KV("products",
               JDict(<<KV("id", JStr("p1")), KV("name", JStr("Product")),
                       KV("category_ids", JList(<<JStr("c1")>>))>>
                     \o Pick(ProductFields, keep)
                     \o <<KV("product_variants", JList(variants)),
                          KV("categories", JList(categories))>>))>>)
RedactInputs ==
    {CanonicalPayload(keep, v, c) : keep \in SUBSET (1..Len(ProductFields)),
                                    v \in Lists(Variants), c \in Lists(Categories)}

\* dicts with the keys id, name and is_featured, for a place under the
\* products node other than the categories list
CategoryShaped ==
    {<<KV("id", JStr("c1")), KV("name", JStr("n")), KV("is_featured", f),
       KV("user_id", JStr("u1")), KV("updated_at", Stamp)>> \o more :
        f \in {JBool(TRUE), JStr("yes")},
        more \in {<<>>, <<KV("note", JStr("see product_id"))>>}}

\* payloads of other shapes for redaction: products nodes without a
\* product_variants list, holding scalars of every kind
OddPayloads ==
    {JDict(<<>>),
     JDict(<<KV("created_at", Stamp), KV("name", JStr("x"))>>),
     JDict(<<KV("products", JDict(<<KV("product_id", JStr("p1")),
                                    KV("store_id", JStr("s1"))>>))>>),
     JDict(<<KV("event_type", JStr("product_update")), KV("store_id", JStr("s1")),
             KV("products", JDict(<<KV("product_id", JStr("p1")),
                                    KV("store_id", JStr("s1"))>>))>>),
     JDict(<<KV("products", JDict(<<KV("id", JStr("p1")), KV("price", JNum(10))>>))>>),
     JDict(<<KV("products", JDict(<<KV("id", JStr("p1")), KV("note", JNull)>>))>>),
     JDict(<<KV("products", JDict(<<KV("id", JStr("p1")),
                                    KV("needs_prescription", JBool(FALSE))>>))>>),
     JDict(<<KV("products", JDict(<<KV("id", JStr("p1")), KV("name", JStr("n")),
                                    KV("is_featured", JStr("yes")),
                                    KV("user_id", JStr("u1")),
                                    KV("archived_at", JStr("see product_id"))>>))>>),
     JDict(<<KV("products", JDict(<<KV("created_at", JStr("product_id")),
                                    KV("count", JNum(5))>>))>>)}
    \cup {JDict(<<KV("products",
                     JDict(<<KV("id", JStr("p1")), KV("product_variants", JList(<<>>)),
                             KV("main_category", JDict(c))>>))>>) : c \in CategoryShaped}

\* payloads for hashing, taken in pairs: one payload, the same with the keys
\* of a dict in another order, with a list in another order, with a value
\* changed, with a key missing or added
HashInputs ==
    LET a == KV("a", JNum(1))
        b == KV("b", JList(<<JNum(1), JNum(2)>>))
        c == KV("c", JDict(<<KV("x", JStr("u")), KV("y", JNull)>>))
    IN  {JDict(<<a, b, c>>), JDict(<<c, a, b>>), JDict(<<b, c, a>>),
         JDict(<<a, b, KV("c", JDict(<<KV("y", JNull), KV("x", JStr("u"))>>))>>),
         JDict(<<a, KV("b", JList(<<JNum(2), JNum(1)>>)), c>>),
         JDict(<<KV("a", JNum(2)), b, c>>),
         JDict(<<KV("a", JBool(TRUE)), b, c>>),
         JDict(<<a, b, KV("c", JDict(<<KV("x", JStr("v")), KV("y", JNull)>>))>>),
         JDict(<<a, b, KV("c", JDict(<<KV("x", JStr("u"))>>))>>),
         JDict(<<a, b>>), JDict(<<b, a>>), JDict(<<>>)}

\* payloads for the identity extractors
IdentityStoreValues ==
    {JStr("s1"), JStr(""), JNum(7), JNull,
     JDict(<<KV("id", JStr("s1"))>>),
     JDict(<<KV("id", JNum(5))>>),
     JDict(<<KV("name", JStr("shop"))>>)}
IdentityProductsValues ==
    {JDict(<<>>),
     JDict(<<KV("store_id", JStr("s2"))>>),
     JDict(<<KV("store_id", JNum(5)), KV("id", JStr("p2"))>>),
     JDict(<<KV("product_id", JStr("p1")), KV("id", JStr("p2")),
             KV("store_id", JStr("s2"))>>),
     JDict(<<KV("id", JStr("p2"))>>),
     JDict(<<KV("id", JNum(2)), KV("store_id", JStr("s2"))>>),
     JDict(<<KV("product_id", JNull), KV("id", JStr("p2"))>>),
     JDict(<<KV("name", JStr("x"))>>),
     JList(<<JStr("p1")>>), JStr("p1"), JNull}
IdentityInputs ==
    {JDict(a \o b) : a \in Entry("store_id", IdentityStoreValues),
                     b \in Entry("products", IdentityProductsValues)}

\* payloads for get_store_domain: a domain at each place it is looked for, as
\* a string, a null, or not at all
DomainValues == {JStr("shop.example"), JNull}
DomainInputs ==
    {JDict(a \o b \o c) :
        a \in Entry("store_domain", DomainValues),
        b \in Entry("store_id",
                    {JStr("s1"), JNull, JDict(<<KV("id", JStr("s1"))>>)}
                    \cup {JDict(<<KV("id", JStr("s1")), KV(k, v)>>) :
                             k \in {"domain", "store_domain"}, v \in DomainValues}),
        c \in Entry("products",
                    {JNull, JDict(<<KV("id", JStr("p1"))>>)}
                    \cup {JDict(<<KV("id", JStr("p1")), KV("store_domain", v)>>) :
                             v \in DomainValues})}

Calls ==
    {[fn |-> "classify", arg |-> p, ret |-> Pending] : p \in ClassifyInputs}
    \cup {[fn |-> "route", arg |-> JStr(t), ret |-> Pending] : t \in RouteInputs}
    \cup {[fn |-> "redact", arg |-> p, ret |-> Pending] :
              p \in RedactInputs \cup OddPayloads}
    \cup {[fn |-> "hash", arg |-> JList(<<p, q>>), ret |-> Pending] :
              p \in HashInputs, q \in HashInputs}
    \cup {[fn |-> f, arg |-> p, ret |-> Pending] :
              f \in {"extract_store_id", "extract_product_id"}, p \in IdentityInputs}
    \cup {[fn |-> "extract_company_id", arg |-> p, ret |-> Pending] :
              p \in IdentityInputs}
    \cup {[fn |-> "extract_store_domain", arg |-> p, ret |-> Pending] :
              p \in DomainInputs}
    \cup {[fn |-> "artifact_keys", arg |-> p, ret |-> Pending] :
              p \in {q \in ClassifyInputs : ~detect_raises(q)}}

InitCalls ==
    /\ now = 0
    /\ rawBucket = {}
    /\ processedBucket = {}
    /\ ledger = {}
    /\ published = <<>>
    /\ inv = [w \in Workers |-> Idle]
    /\ racy = [h \in Digests |-> FALSE]
    /\ nSuccess = [h \in Digests |-> 0]
    /\ nFaults = 0
    /\ lastUpsert = {}
    /\ call \in Calls

Returns(value) ==
    /\ call.ret = Pending
    /\ call' = [call EXCEPT !.ret = value]
    /\ UNCHANGED <<now, rawBucket, processedBucket, ledger, published, inv,
                   racy, nSuccess, nFaults, lastUpsert>>

classify ==
    /\ call.fn = "classify"
    /\ Returns(IF detect_raises(call.arg) THEN Raised
               ELSE JStr(detect_event_type(call.arg)))

route ==
    /\ call.fn = "route"
    /\ Returns(JStr(get_routing_target(call.arg.s)))

redact ==
    /\ call.fn = "redact"
    /\ Returns(IF strip_raises(call.arg, "root") THEN Raised
               ELSE strip_fields(call.arg))

\* what a call of strip_fields gives
Redaction(p) == IF strip_raises(p, "root") THEN Raised ELSE strip_fields(p)

\* the caller hands the redacted payload to strip_fields once more
redact_again ==
    /\ call.fn = "redact"
    /\ call.ret \notin {Pending, Raised}
    /\ call' = [fn |-> "redact_again", arg |-> call.ret, ret |-> Redaction(call.ret)]
    /\ UNCHANGED <<now, rawBucket, processedBucket, ledger, published, inv,
                   racy, nSuccess, nFaults, lastUpsert>>

\* calculate_payload_hash on each payload of the pair
hash ==
    /\ call.fn = "hash"
    /\ Returns(JList(<<calculate_payload_hash(call.arg.l[1]),
                       calculate_payload_hash(call.arg.l[2])>>))

extract_store_id ==
    /\ call.fn = "extract_store_id"
    /\ Returns(get_store_id(call.arg))

extract_product_id ==
    /\ call.fn = "extract_product_id"
    /\ Returns(get_product_id(call.arg))

extract_company_id ==
    /\ call.fn = "extract_company_id"
    /\ Returns(get_company_id(call.arg))

extract_store_domain ==
    /\ call.fn = "extract_store_domain"
    /\ Returns(get_store_domain(call.arg))

\* lines 887-937 for one payload, every write succeeding: the key of the raw
\* artifact and the key of the side metadata artifact, if the handler writes one
ArtifactKeys(p) ==
    LET l == Classified([Idle EXCEPT !.payload = p,
                                     !.payload_hash = calculate_payload_hash(p)], 0)
    IN  [event_type |-> l.event_type,
         raw_s3_key |-> RawKey(l, 0),
         metadata_s3_key |-> IF AfterRaw(l) = "store_store_metadata"
                             THEN MetadataKey(l, 0) ELSE NoKey]

artifact_keys ==
    /\ call.fn = "artifact_keys"
    /\ Returns(ArtifactKeys(call.arg))

NextCalls ==
    \/ artifact_keys
    \/ classify
    \/ route
    \/ redact
    \/ redact_again
    \/ hash
    \/ extract_store_id
    \/ extract_product_id
    \/ extract_company_id
    \/ extract_store_domain

SpecCalls == InitCalls /\ [][NextCalls]_vars


(***************************************************************************)
(* Properties.                                                             *)
(***************************************************************************)
Records(h) == {i \in ledger : i.payload_hash = h}
Done(w) == inv[w].pc = "done"
Status(w) == inv[w].result.status
\* the invocation wrote its raw artifact
Effected(w) == inv[w].raw_s3_key # NoKey
Other(w) == CHOOSE v \in Workers : v # w

\* C1: an invocation that arrives after a success was returned for the same
\* digest, and whose registry lookup works, stops with the duplicate outcome
\* carrying the event_id and processing timestamp of a registry record of that
\* digest; when the invocations of the digest did not overlap and no lookup
\* failed, the registry holds exactly one record for it.
C1_DuplicateAfterSuccess ==
    \A w \in Workers :
        (inv[w].after_success /\ "query" \notin inv[w].faults) =>
            /\ Done(w)
            /\ Status(w) = "duplicate"
            /\ \E i \in Records(inv[w].payload_hash) :
                 /\ inv[w].result.event_id = i.event_id
                 /\ inv[w].result.original_processing_timestamp = i.processing_timestamp
            /\ ~racy[inv[w].payload_hash] =>
                 /\ Cardinality(Records(inv[w].payload_hash)) = 1
                 /\ inv[w].result.event_id = inv[Other(w)].result.event_id
                 /\ Status(Other(w)) = "success"

C1_Witness ==
    \E w \in Workers :
        /\ inv[w].after_success
        /\ Status(w) = "duplicate"
        /\ ~racy[inv[w].payload_hash]
        /\ rawBucket # {}

\* C2 as claimed: for every digest at most one invocation performs the side
\* effects and the registry never holds two records with it.
C2_AtMostOnceAlways ==
    \A h \in Digests :
        /\ Cardinality(Records(h)) <= 1
        /\ Cardinality({w \in Workers : inv[w].payload_hash = h /\ Effected(w)}) <= 1

\* C2 amended: for a digest whose invocations did not overlap and whose
\* lookups all worked, the registry holds at most one record, at most one
\* invocation returned success, and a second invocation performed the side
\* effects only if the earlier one ended in error.
C2_AtMostOnceSequential ==
    \A h \in Digests :
        ~racy[h] =>
            /\ Cardinality(Records(h)) <= 1
            /\ nSuccess[h] <= 1
            /\ Cardinality({w \in Workers : inv[w].payload_hash = h /\ Status(w) = "success"}) <= 1
            /\ (\A w \in Workers : inv[w].payload_hash = h /\ Effected(w))
                  => \E w \in Workers : Status(w) = "error"

C2_Witness ==
    \E w \in Workers :
        /\ Status(w) = "error" /\ "put_item" \in inv[w].faults
        /\ Status(Other(w)) = "success"
        /\ inv[Other(w)].payload_hash = inv[w].payload_hash
        /\ ~racy[inv[w].payload_hash]

\* C3: an invocation whose lookup returned a record stops in that very step
\* with the duplicate outcome, the step writes nothing to the raw bucket, the
\* processed bucket (master and store catalogs), the registry or the refresh
\* topic, and a finished invocation takes no further step.
C3_DuplicateHasNoEffect ==
    [][\A w \in Workers :
          /\ (inv[w].pc = "idle" /\ inv'[w].existing_event # JNull) =>
                /\ inv'[w].pc = "done"
                /\ inv'[w].result.status = "duplicate"
                /\ inv'[w].raw_s3_key = NoKey
                /\ UNCHANGED <<rawBucket, processedBucket, ledger, published>>
          /\ inv[w].pc = "done" => inv'[w] = inv[w]]_vars

C3_Witness ==
    \E w \in Workers :
        /\ inv[w].existing_event # JNull
        /\ Status(w) = "duplicate"
        /\ processedBucket # {}
        /\ published # <<>>

\* C4: whenever an invocation has returned success, the registry holds the
\* record it wrote (its digest and event_id), and an invocation whose
\* put_item failed has returned error.
C4_SuccessOnlyAfterRegistration ==
    \A w \in Workers :
        /\ Status(w) = "success" =>
              \E i \in Records(inv[w].payload_hash) :
                  /\ i.event_id = inv[w].event_id
                  /\ i.s3_key = inv[w].raw_s3_key
        /\ "put_item" \in inv[w].faults => Status(w) = "error"

C4_Witness ==
    \E w \in Workers :
        /\ "put_item" \in inv[w].faults
        /\ Status(w) = "error"
        /\ Status(Other(w)) = "success"


\* the master entry of a product, or Absent
Absent == [t |-> "absent"]
MasterOf(bucket, product_id) ==
    IF HasObject(bucket, MasterKey(product_id))
    THEN get_object(bucket, MasterKey(product_id))
    ELSE Absent
\* worker w takes this step
Steps(w) == inv'[w] # inv[w]
BothIds(w) == Truthy(inv[w].product_id) /\ Truthy(inv[w].store_id)

\* C5 as claimed: an invocation whose master upsert failed writes no
\* store-scoped entry and reaches no refresh signal.
C5_FailedUpsertSkipsPropagation ==
    \A w \in Workers :
        "put_master" \in inv[w].faults =>
            /\ inv[w].store_catalog_key = NoKey
            /\ inv[w].pc \notin {"put_store_catalog", "trigger_kb_refresh"}

\* C6 as claimed: every invocation that returned success has a processed
\* artifact in the processed bucket under the key of its raw artifact, a
\* payload with an injected _metadata object.
C6_ProcessedArtifactPersisted ==
    \A w \in Workers :
        Status(w) = "success" =>
            \E o \in processedBucket :
                /\ o.key = inv[w].raw_s3_key
                /\ Has(o.body, "_metadata")

\* C7 as claimed: no step of a product_delete carrying both ids changes the
\* master entry of its product, and when it returns success the store-scoped
\* entry does not exist.
C7_DeleteLeavesMasterUntouched ==
    [][\A w \in Workers :
          (inv[w].event_type = "product_delete" /\ BothIds(w) /\ Steps(w)) =>
              /\ MasterOf(processedBucket', inv[w].product_id)
                    = MasterOf(processedBucket, inv[w].product_id)
              /\ inv'[w].result.status = "success" =>
                    ~HasObject(processedBucket',
                               StoreKey(inv[w].store_id, inv[w].product_id))]_vars

\* C7 amended: right after the delete step of a product_delete carrying both
\* ids succeeds the store-scoped entry does not exist; the delete step and
\* every other step of that event except its product bootstrap leave the
\* master entry as it is; the bootstrap step, reached when the existence check
\* answered absent or failed, writes {"products": <the payload's products>}.
C7_DeleteTouchesMasterOnlyByBootstrap ==
    [][\A w \in Workers :
          (inv[w].event_type = "product_delete" /\ BothIds(w) /\ Steps(w)) =>
              /\ inv[w].pc # "create_product_if_not_exists" =>
                    MasterOf(processedBucket', inv[w].product_id)
                       = MasterOf(processedBucket, inv[w].product_id)
              /\ inv[w].pc = "create_product_if_not_exists" =>
                    MasterOf(processedBucket', inv[w].product_id)
                       \in {MasterOf(processedBucket, inv[w].product_id),
                            JDict(<<KV("products", Get(inv[w].payload, "products"))>>)}
              /\ (inv[w].pc = "delete_from_store_catalog"
                  /\ "delete" \notin inv'[w].faults) =>
                    ~HasObject(processedBucket',
                               StoreKey(inv[w].store_id, inv[w].product_id))]_vars

C7_Witness ==
    \E w \in Workers :
        /\ inv[w].event_type = "product_delete"
        /\ BothIds(w)
        /\ inv[w].pc \in {"trigger_kb_refresh", "register_event", "done"}
        /\ "delete" \notin inv[w].faults
        /\ inv[Other(w)].store_catalog_key # NoKey
        /\ ~HasObject(processedBucket, StoreKey(inv[w].store_id, inv[w].product_id))
        /\ HasObject(processedBucket, MasterKey(inv[w].product_id))

\* C8 as claimed: in the store-scoped entry an invocation wrote, every variant
\* has the price of the triggering payload's first variant whenever that
\* variant carries a price, and products.store_id is the triggering store_id.
C8_StoreEntryCarriesFirstPrice ==
    \A w \in Workers :
        inv[w].store_catalog_key # NoKey =>
            LET first == FirstVariant(inv[w].payload)
                products == Get(inv[w].store_product, "products")
                variants == GetOr(products, "product_variants")
            IN  /\ Get(products, "store_id") = inv[w].store_id
                /\ (IsDict(first) /\ Has(first, "price") /\ IsList(variants)) =>
                      \A i \in 1..Len(variants.l) :
                          IsDict(variants.l[i]) =>
                              GetOr(variants.l[i], "price") = Get(first, "price")

\* C9 as claimed, for the case the claim names: the bootstrap step of a product
\* event whose existence check errored, taken while no other invocation is in
\* flight, never changes a master entry that exists.
C9_BootstrapNeverOverwrites ==
    [][\A w \in Workers :
          (/\ inv[w].pc = "create_product_if_not_exists"
           /\ Steps(w)
           /\ "head" \in inv[w].faults
           /\ ~Running(Other(w))
           /\ HasObject(processedBucket, MasterKey(inv[w].product_id))) =>
              MasterOf(processedBucket', inv[w].product_id)
                 = MasterOf(processedBucket, inv[w].product_id)]_vars

\* every product event for this master key has upserted successfully
C10_Settled(key) ==
    \A v \in Workers :
        (/\ inv[v].event_type \in ProductEvents
         /\ Truthy(inv[v].product_id)
         /\ MasterKey(inv[v].product_id) = key) => inv[v].master_catalog_key = key

C10_LatestUpsertStands ==
    \A w \in Workers :
        (inv[w].master_catalog_key # NoKey /\ C10_Settled(inv[w].master_catalog_key)) =>
            get_object(processedBucket, inv[w].master_catalog_key)
               = get_object(lastUpsert, inv[w].master_catalog_key)

\* C10: a successful master upsert leaves the raw payload of its event under
\* master/products/{product_id}.json whatever was there before, and once every
\* product event for that id has upserted, the entry holds what the latest
\* successful upsert wrote.
C10_MasterUpsertLastWriteWins ==
    [][/\ \A w \in Workers :
             (inv[w].pc = "store_to_master_catalog"
              /\ inv'[w].master_catalog_key # NoKey) =>
                 MasterOf(processedBucket', inv[w].product_id) = inv[w].payload
       /\ C10_LatestUpsertStands']_vars

C10_Witness ==
    /\ \A w \in Workers : Done(w) /\ inv[w].master_catalog_key # NoKey
    /\ inv["w1"].payload # inv["w2"].payload
    /\ inv["w1"].master_catalog_key = inv["w2"].master_catalog_key


(***************************************************************************)
(* Master entry form and the fatal and recoverable failures.               *)
(***************************************************************************)
\* C11 as claimed: every master catalog entry is {"products": <object>} with
\* no other top-level key.
C11_MasterEntryIsProductsOnly ==
    \A o \in processedBucket :
        o.key.kind = "master" =>
            /\ IsDict(o.body)
            /\ Len(o.body.d) = 1
            /\ o.body.d[1].k = "products"

\* the steps the handler takes after the raw write
AfterRawWrite ==
    {"store_store_metadata", "store_to_master_catalog", "copy_to_store_catalog",
     "put_store_catalog", "delete_from_store_catalog", "trigger_kb_refresh",
     "register_event"}
FatalFaults == {"put_raw", "put_item"}

\* C12: the step in which the raw write fails ends the invocation with the
\* error outcome and changes neither bucket, the registry nor the refresh
\* topic; the invocation takes no step afterwards; and the metadata write,
\* the master upsert, the propagation, the delete, the refresh signal and the
\* registration are only ever taken by an invocation whose raw write
\* succeeded, so none of them happened before the failure either.
C12_RawWriteFailureIsFatal ==
    [][\A w \in Workers :
          Steps(w) =>
              /\ inv[w].pc # "done"
              /\ (inv[w].pc = "store_raw_payload" /\ "put_raw" \in inv'[w].faults) =>
                    /\ inv'[w].pc = "done"
                    /\ inv'[w].result = ErrorResult
                    /\ inv'[w].metadata_s3_key = NoKey
                    /\ inv'[w].master_catalog_key = NoKey
                    /\ inv'[w].store_catalog_key = NoKey
                    /\ UNCHANGED <<rawBucket, processedBucket, ledger, published>>
              /\ inv[w].pc \in AfterRawWrite =>
                    /\ "put_raw" \notin inv[w].faults
                    /\ HasObject(rawBucket, inv[w].raw_s3_key)
              /\ (ledger' # ledger \/ published' # published) =>
                    inv[w].pc \in AfterRawWrite]_vars

C12_Witness ==
    \E w \in Workers :
        /\ "put_raw" \in inv[w].faults
        /\ Status(w) = "error"
        /\ inv[w].event_type \in UpsertEvents
        /\ BothIds(w)
        /\ HasObject(processedBucket, MasterKey(inv[w].product_id))

\* C13: an invocation whose registry lookup failed sees no prior record, does
\* not stop as a duplicate, goes on to classification and the steps after it,
\* and ends in error only if its raw write or its registration failed;
\* otherwise it ends in success.
C13_LookupFailureProceeds ==
    \A w \in Workers :
        "query" \in inv[w].faults =>
            /\ inv[w].existing_event = JNull
            /\ inv[w].event_type = detect_event_type(inv[w].payload)
            /\ Status(w) \in {"none", "success", "error"}
            /\ Status(w) = "error" => inv[w].faults \cap FatalFaults # {}
            /\ (Done(w) /\ inv[w].faults \cap FatalFaults = {}) => Status(w) = "success"

\* the lookup failed although the registry held a record of the digest, and
\* the invocation went through to success
C13_Witness ==
    \E w \in Workers :
        /\ "query" \in inv[w].faults
        /\ inv[w].after_success
        /\ Status(w) = "success"
        /\ Cardinality(Records(inv[w].payload_hash)) = 2

RecoverableFaults ==
    {"list", "put_store", "head", "put_product", "put_metadata", "put_master",
     "get_master", "put_store_catalog", "delete", "publish"}

\* C14: a step in which store bootstrap, product bootstrap, the metadata
\* write, the master upsert, the propagation, the delete or the refresh
\* publish fails does not end the invocation; an invocation ends in error
\* only with a failed raw write or a failed registration; and one that ended
\* in success has its registry record.
C14_RecoverableFailuresKeepOutcome ==
    [][\A w \in Workers :
          Steps(w) =>
              /\ (inv'[w].faults \ inv[w].faults) \cap RecoverableFaults # {} =>
                    inv'[w].pc # "done"
              /\ (inv'[w].pc = "done" /\ inv'[w].faults \cap FatalFaults = {}
                  /\ inv'[w].existing_event = JNull) =>
                    /\ inv'[w].result.status = "success"
                    /\ \E i \in ledger' :
                          /\ i.payload_hash = inv[w].payload_hash
                          /\ i.event_id = inv[w].event_id
                          /\ i.s3_key = inv[w].raw_s3_key
              /\ inv'[w].result.status = "error" =>
                    inv'[w].faults \cap FatalFaults # {}]_vars

C14_Witness ==
    \E w \in Workers :
        /\ Status(w) = "success"
        /\ Cardinality(inv[w].faults \cap RecoverableFaults) >= 2
        /\ "put_master" \in inv[w].faults
        /\ \E i \in Records(inv[w].payload_hash) : i.event_id = inv[w].event_id


(***************************************************************************)
(* Classification, routing and redaction as functions.                     *)
(***************************************************************************)
Returned(fn) == call.fn = fn /\ call.ret # Pending
\* the dict without the listed keys
Drop(j, keys) ==
    LET Kept(kv) == kv.k \notin keys
    IN  JDict(SelectSeq(j.d, Kept))
\* the payload carries a top-level event_type string
Tagged(p) == Has(p, "event_type") /\ IsStr(Get(p, "event_type"))
\* the alias table of the classifier's contract
C15_Alias(tag) ==
    CASE tag = "product_deletion" -> "product_delete"
      [] tag = "new_product" -> "product_create"
      [] tag = "new_store" -> "store_create"
      [] tag = "deleted_store" -> "store_delete"
      [] tag = "updated_store" -> "store_update"
      [] OTHER -> tag
\* what a call of classify on p gives
Classification(p) == IF detect_raises(p) THEN Raised ELSE JStr(detect_event_type(p))

\* C15 as claimed: for every payload with a top-level event_type string,
\* classification returns the alias-normalized tag.
C15_ExplicitTagAlwaysWins ==
    (Returned("classify") /\ Tagged(call.arg)) =>
        call.ret = JStr(C15_Alias(Get(call.arg, "event_type").s))

\* C15 amended: for every payload with a non-empty top-level event_type
\* string classification returns the alias-normalized tag, whatever products
\* and store_id hold; an empty event_type string is no tag, and the payload
\* classifies as it does without the event_type entry.
C15_NonEmptyTagAlwaysWins ==
    (Returned("classify") /\ Tagged(call.arg)) =>
        IF Get(call.arg, "event_type").s # ""
        THEN call.ret = JStr(C15_Alias(Get(call.arg, "event_type").s))
        ELSE call.ret = Classification(Drop(call.arg, {"event_type"}))

\* a deletion tag on a payload whose structure says product_update
C15_Witness ==
    /\ Returned("classify")
    /\ Tagged(call.arg)
    /\ Get(call.arg, "event_type").s = "product_deletion"
    /\ Has(call.arg, "products")
    /\ Classification(Drop(call.arg, {"event_type"})) = JStr("product_update")
    /\ call.ret = JStr("product_delete")

\* C16 as claimed, for payloads with no event_type entry whose products entry
\* is an object: product_delete when products.archived_at is non-null,
\* otherwise product_update when products has id or product_id, otherwise
\* product_create.
C16_ProductFallback ==
    (/\ Returned("classify")
     /\ ~Has(call.arg, "event_type")
     /\ Has(call.arg, "products")
     /\ IsDict(Get(call.arg, "products"))) =>
        LET products == Get(call.arg, "products")
        IN  call.ret =
              JStr(IF GetOr(products, "archived_at") # JNull THEN "product_delete"
                   ELSE IF Has(products, "id") \/ Has(products, "product_id")
                   THEN "product_update"
                   ELSE "product_create")

\* C17 as claimed, for payloads with neither an event_type nor a products
\* entry: an object store_id gives store_delete when its archived_at is
\* non-null, else store_update when it has an id, otherwise store_create; a
\* string store_id gives store_update.
C17_StoreFallback ==
    (/\ Returned("classify")
     /\ ~Has(call.arg, "event_type")
     /\ ~Has(call.arg, "products")
     /\ Has(call.arg, "store_id")) =>
        LET store_id == Get(call.arg, "store_id")
        IN  /\ IsDict(store_id) =>
                  call.ret =
                    JStr(IF GetOr(store_id, "archived_at") # JNull THEN "store_delete"
                         ELSE IF Has(store_id, "id") THEN "store_update"
                         ELSE "store_create")
            /\ IsStr(store_id) => call.ret = JStr("store_update")

\* C18 as claimed: classification returns a value for every payload, and a
\* payload with no event_type entry whose products entry is not an object
\* and whose store_id entry, if any, is neither an object nor a string
\* classifies as unknown.
C18_ClassificationNeverFails ==
    Returned("classify") =>
        /\ call.ret # Raised
        /\ (/\ ~Has(call.arg, "event_type")
            /\ Has(call.arg, "products") => ~IsDict(Get(call.arg, "products"))
            /\ Has(call.arg, "store_id") =>
                   (~IsDict(Get(call.arg, "store_id")) /\ ~IsStr(Get(call.arg, "store_id"))))
              => call.ret = JStr("unknown")

\* C19: route returns product-service for the three product types,
\* store-service for the three store types and default-handler for unknown
\* and for every other string; the target is never empty.
C19_RoutingIsTotal ==
    Returned("route") =>
        /\ call.ret # JStr("")
        /\ call.ret =
              JStr(CASE call.arg.s \in {"product_create", "product_update", "product_delete"}
                          -> "product-service"
                     [] call.arg.s \in {"store_create", "store_update", "store_delete"}
                          -> "store-service"
                     [] OTHER -> "default-handler")

C19_Witness ==
    /\ Returned("route")
    /\ call.arg.s \notin {"product_create", "product_update", "product_delete",
                           "store_create", "store_update", "store_delete", "unknown"}
    /\ call.ret = JStr("default-handler")

\* the redaction of a payload of the canonical shape, field by field
C20_Expected(p) ==
    LET products == Get(p, "products")
        variants == Get(products, "product_variants").l
        categories == Get(products, "categories").l
        node == Drop(products, {"created_at", "updated_at", "archived_at"})
        strippedVariants ==
            JList([i \in 1..Len(variants) |->
                     Drop(variants[i],
                          {"image_url", "stock_quantity", "is_default", "stockStatus",
                           "lab_test_codes_id", "service_product_id", "cpr_price",
                           "archived_at"})])
        strippedCategories ==
            JList([i \in 1..Len(categories) |->
                     Drop(categories[i],
                          {"user_id", "created_at", "last_modified", "image"})])
    IN  JDict(<<KV("products",
                   DictSet(DictSet(node, "product_variants", strippedVariants),
                           "categories", strippedCategories))>>)

\* C20: for a payload of the canonical shape redaction returns the payload
\* without created_at/updated_at/archived_at on the products node, without
\* the eight listed fields on each variant and without user_id/created_at/
\* last_modified/image on each category; every other field is there with its
\* value, in its place.
C20_RedactionRemovesExactlyListed ==
    Returned("redact") /\ call.arg \in RedactInputs
        => call.ret = C20_Expected(call.arg)

\* fields listed for one context are kept in another: user_id on the products
\* node, created_at on a variant, archived_at on a category
C20_Witness ==
    /\ Returned("redact")
    /\ call.arg \in RedactInputs
    /\ call.ret # call.arg
    /\ LET products == Get(call.ret, "products")
           variants == Get(products, "product_variants").l
           categories == Get(products, "categories").l
       IN  /\ Has(products, "user_id")
           /\ Has(Get(call.arg, "products"), "created_at")
           /\ \E i \in 1..Len(variants) : Has(variants[i], "created_at")
           /\ \E i \in 1..Len(categories) :
                  Has(categories[i], "archived_at") /\ ~Has(categories[i], "image")


(***************************************************************************)
(* Redaction twice, hashing and the identity extractors.                   *)
(***************************************************************************)
\* C21 as claimed: redacting a redacted payload returns it unchanged.
C21_RedactionIsIdempotent ==
    call.fn = "redact_again" => call.ret = call.arg

RECURSIVE C22_Mentions(_, _)
\* some dict of the value, at any depth, has one of the keys
C22_Mentions(j, keys) ==
    CASE j.t = "dict" ->
           \E i \in 1..Len(j.d) : j.d[i].k \in keys \/ C22_Mentions(j.d[i].v, keys)
      [] j.t = "list" -> \E i \in 1..Len(j.l) : C22_Mentions(j.l[i], keys)
      [] OTHER -> FALSE

\* C22 as claimed: redaction returns for every payload, and a payload with
\* no listed field at any depth is returned equal to the input.
C22_RedactionIsTotalPassThrough ==
    Returned("redact") =>
        /\ call.ret # Raised
        /\ ~C22_Mentions(call.arg,
                         {"created_at", "updated_at", "archived_at", "image_url",
                          "stock_quantity", "is_default", "stockStatus",
                          "lab_test_codes_id", "service_product_id", "cpr_price",
                          "user_id", "last_modified", "image"})
              => call.ret = call.arg

RECURSIVE C23_SameLogical(_, _)
\* the same keys and values at every nesting level, lists in the same order
C23_SameLogical(p, q) ==
    /\ p.t = q.t
    /\ CASE p.t = "dict" ->
              /\ {p.d[i].k : i \in 1..Len(p.d)} = {q.d[i].k : i \in 1..Len(q.d)}
              /\ \A i \in 1..Len(p.d) :
                     C23_SameLogical(p.d[i].v, Get(q, p.d[i].k))
         [] p.t = "list" ->
              /\ Len(p.l) = Len(q.l)
              /\ \A i \in 1..Len(p.l) : C23_SameLogical(p.l[i], q.l[i])
         [] OTHER -> p = q

\* C23: two payloads have the same digest exactly when they have the same
\* keys and values at every nesting level, whatever the order of their keys;
\* a changed value, a missing key or a reordered list gives another digest.
C23_HashIsCanonical ==
    Returned("hash") =>
        (call.ret.l[1] = call.ret.l[2]
            <=> C23_SameLogical(call.arg.l[1], call.arg.l[2]))

\* the same payload written with its keys in two orders
C23_Witness ==
    /\ Returned("hash")
    /\ call.arg.l[1] # call.arg.l[2]
    /\ call.ret.l[1] = call.ret.l[2]
    /\ Len(call.arg.l[1].d) = 3

\* C24 as claimed: store_id is the top-level store_id when that is a string,
\* its id when it is an object with an id, otherwise products.store_id;
\* product_id is products.product_id when present, otherwise products.id;
\* null when there is neither.
C24_IdentifierPrecedence ==
    LET p == call.arg
        top == Get(p, "store_id")
        products == Get(p, "products")
        inProducts(key) == Has(p, "products") /\ IsDict(products) /\ Has(products, key)
    IN  /\ Returned("extract_store_id") =>
              call.ret =
                IF Has(p, "store_id") /\ IsStr(top) THEN top
                ELSE IF Has(p, "store_id") /\ IsDict(top) /\ Has(top, "id")
                THEN Get(top, "id")
                ELSE IF inProducts("store_id") THEN Get(products, "store_id")
                ELSE JNull
        /\ Returned("extract_product_id") =>
              call.ret =
                IF inProducts("product_id") THEN Get(products, "product_id")
                ELSE IF inProducts("id") THEN Get(products, "id")
                ELSE JNull

(***************************************************************************)
(* Re-delivery, the bootstrap races, the store record and the refresh.     *)
(***************************************************************************)
\* w handles the payload again after the first attempt of the other worker
\* did everything but the registration; nothing overlapped, nothing fails
C25_Redelivery(w) ==
    /\ inv[w].pc # "idle"
    /\ Done(Other(w))
    /\ Status(Other(w)) = "error"
    /\ inv[Other(w)].faults = {"put_item"}
    /\ inv[w].payload_hash = inv[Other(w)].payload_hash
    /\ ~racy[inv[w].payload_hash]
    /\ inv[w].faults = {}

\* C25: when an invocation failed at the registration only and the same
\* payload is delivered again, with nothing in between and nothing failing,
\* no step of the re-delivery changes the master or store catalog, and the
\* re-delivery ends in success, not in duplicate.
C25_RedeliveryIsSafe ==
    [][\A w \in Workers :
          (C25_Redelivery(w)' /\ Steps(w)) =>
              /\ processedBucket' = processedBucket
              /\ Done(w)' => Status(w)' = "success"]_vars

\* a re-delivered upsert that reached the store catalog again
C25_Witness ==
    \E w \in Workers :
        /\ C25_Redelivery(w)
        /\ Done(w)
        /\ Status(w) = "success"
        /\ inv[w].store_catalog_key # NoKey
        /\ inv[Other(w)].store_catalog_key = inv[w].store_catalog_key
        /\ inv[w].event_id # inv[Other(w)].event_id

\* C26 as claimed: when two invocations for the same product have finished
\* with every call succeeding, the master entry does not depend on where the
\* bootstrap writes fell among their steps: it is what the latest upsert left.
C26_BootstrapRacesConverge ==
    \A w \in Workers :
        (/\ Done(w) /\ Done(Other(w))
         /\ nFaults = 0
         /\ Status(w) = "success" /\ Status(Other(w)) = "success"
         /\ inv[w].event_type \in ProductEvents
         /\ inv[Other(w)].event_type \in ProductEvents
         /\ Truthy(inv[w].product_id)
         /\ inv[w].product_id = inv[Other(w)].product_id
         /\ HasObject(lastUpsert, MasterKey(inv[w].product_id)))
        => MasterOf(processedBucket, inv[w].product_id)
              = get_object(lastUpsert, MasterKey(inv[w].product_id))

\* the key and the body of the record that w's bootstrap writes
C27_Key(w) ==
    EventKey(PyStr(inv[w].store_id), "store_create", now, inv[w].event_id,
             ".metadata.json")
\* o is a bootstrap record of the store
C27_IsBootstrapRecord(o, store) ==
    /\ o.key.kind = "event"
    /\ o.key.store = store
    /\ o.key.event_type = "store_create"
    /\ o.key.suffix = ".metadata.json"
    /\ Has(Get(o.body, "metadataAttributes"), "created_by_event")

\* C27: the bootstrap write is not conditional on the store still being
\* absent: a creation step that does not fail leaves its record in the bucket
\* whatever another invocation has written since the check, so two
\* invocations that both found the store absent both write a record.
C27_BootstrapIsCheckThenAct ==
    [][\A w \in Workers :
          (/\ inv[w].pc = "create_store_if_not_exists"
           /\ Steps(w)
           /\ inv'[w].faults = inv[w].faults) =>
              /\ HasObject(rawBucket', C27_Key(w))
              /\ get_object(rawBucket', C27_Key(w)) = StoreBootstrapMetadata(inv[w], now)]_vars

\* two bootstrap records for one store, one by each invocation, no check
\* having failed
C27_Witness ==
    /\ nFaults = 0
    /\ \E o1, o2 \in rawBucket :
         /\ o1.key # o2.key
         /\ C27_IsBootstrapRecord(o1, "s1")
         /\ C27_IsBootstrapRecord(o2, "s1")
         /\ Get(Get(o1.body, "metadataAttributes"), "created_by_event")
               = JEid(inv["w1"].event_id)
         /\ Get(Get(o2.body, "metadataAttributes"), "created_by_event")
               = JEid(inv["w2"].event_id)

\* C28 as claimed: after the first event ever for a store has been processed
\* with every call succeeding, a store record exists that is tagged with the
\* event's id and with the resolved domain, the store_id when there is none.
C28_StoreRecordTagged ==
    \A w \in Workers :
        (/\ Done(w)
         /\ Status(w) = "success"
         /\ inv[w].faults = {}
         /\ Truthy(inv[w].store_id)
         /\ inv[Other(w)].pc = "idle") =>
            \E o \in list_objects_v2(rawBucket, PyStr(inv[w].store_id), "store_create") :
                /\ o.key.suffix = ".metadata.json"
                /\ Has(Get(o.body, "metadataAttributes"), "created_by_event")
                /\ Get(Get(o.body, "metadataAttributes"), "created_by_event")
                      = JEid(inv[w].event_id)
                /\ Get(Get(o.body, "metadataAttributes"), "store")
                      = PyOr(get_store_domain(inv[w].payload), inv[w].store_id)

\* the store records and store_create artifacts that the bucket holds for
\* w's store
C29_Listed(w) ==
    {o \in rawBucket : /\ o.key.kind = "event"
                       /\ o.key.store = PyStr(inv[w].store_id)
                       /\ o.key.event_type = "store_create"}

\* C29: an existence check that works and finds a store record or a
\* store_create artifact skips the creation and writes nothing; the creation
\* is entered from a check that found nothing or failed, and bootstrap
\* records are written by the creation step only.  With nothing between an
\* invocation's check and its creation, a store with a record gets no other.
C29_BootstrapOnlyFirstTime ==
    [][\A w \in Workers :
          /\ (/\ inv[w].pc = "check_store_exists"
              /\ Steps(w)
              /\ inv'[w].faults = inv[w].faults
              /\ C29_Listed(w) # {}) =>
                 /\ inv'[w].pc = AfterStore(inv[w])
                 /\ rawBucket' = rawBucket
          /\ (inv'[w].pc = "create_store_if_not_exists" /\ Steps(w)) =>
                 /\ inv[w].pc = "check_store_exists"
                 /\ "list" \in inv'[w].faults \/ C29_Listed(w) = {}
          /\ (/\ Steps(w)
              /\ \E o \in rawBucket' \ rawBucket :
                    C27_IsBootstrapRecord(o, o.key.store)) =>
                 inv[w].pc = "create_store_if_not_exists"]_vars

\* a later event of a store that has a record: both invocations went through
\* without a failure and the store has the one record of the earlier event
C29_Witness ==
    \E w \in Workers :
        /\ Done(w) /\ Done(Other(w))
        /\ nFaults = 0
        /\ Status(w) = "success" /\ Status(Other(w)) = "success"
        /\ Truthy(inv[w].store_id)
        /\ inv[w].store_id = inv[Other(w)].store_id
        /\ inv[w].event_id # inv[Other(w)].event_id
        /\ inv[w].event_id.secs > inv[Other(w)].event_id.secs
        /\ \A o \in rawBucket :
              C27_IsBootstrapRecord(o, PyStr(inv[w].store_id)) =>
                  Get(Get(o.body, "metadataAttributes"), "created_by_event")
                     = JEid(inv[Other(w)].event_id)
        /\ \E o \in rawBucket : C27_IsBootstrapRecord(o, PyStr(inv[w].store_id))

\* C30: a refresh message is published only by the refresh step of an
\* invocation, for its store; that step is reached only from a store-catalog
\* write of a product_create or product_update that left the entry in place,
\* or from a product_delete's delete that returned, whether the entry was
\* there or not; whatever the publish does, the invocation goes on to the
\* registration with the same locals.
C30_RefreshOnlyAfterStoreChange ==
    [][/\ published' # published =>
             \E w \in Workers :
                 /\ inv[w].pc = "trigger_kb_refresh"
                 /\ Steps(w)
                 /\ published' = Append(published, inv[w].store_id)
       /\ \A w \in Workers :
             /\ (inv'[w].pc = "trigger_kb_refresh" /\ Steps(w)) =>
                   /\ inv'[w].faults = inv[w].faults
                   /\ BothIds(w)
                   /\ \/ /\ inv[w].pc = "put_store_catalog"
                         /\ inv[w].event_type \in UpsertEvents
                         /\ HasObject(processedBucket',
                                      StoreKey(inv[w].store_id, inv[w].product_id))
                         /\ get_object(processedBucket',
                                       StoreKey(inv[w].store_id, inv[w].product_id))
                               = inv[w].store_product
                      \/ /\ inv[w].pc = "delete_from_store_catalog"
                         /\ inv[w].event_type = "product_delete"
                         /\ ~HasObject(processedBucket',
                                       StoreKey(inv[w].store_id, inv[w].product_id))
             /\ (/\ inv[w].pc = "delete_from_store_catalog"
                 /\ Steps(w)
                 /\ inv'[w].faults = inv[w].faults) =>
                   inv'[w].pc = "trigger_kb_refresh"
             /\ (inv[w].pc = "trigger_kb_refresh" /\ Steps(w)) =>
                   inv'[w] = [inv[w] EXCEPT !.pc = "register_event",
                                            !.faults = inv'[w].faults]]_vars

\* the only invocation so far, a product_delete, found no store entry to
\* delete and its refresh went out; or a publish failed and the invocation
\* succeeded all the same
C30_Witness ==
    \E w \in Workers :
        /\ Done(w)
        /\ Status(w) = "success"
        /\ inv[w].event_type = "product_delete"
        /\ inv[Other(w)].pc = "idle"
        /\ published = <<inv[w].store_id>>

C32_MetadataKeyFollowsRawKey ==
    Returned("artifact_keys") =>
        call.ret.metadata_s3_key =
            IF call.ret.event_type = "store_create"
            THEN [call.ret.raw_s3_key EXCEPT !.suffix = ".metadata.json"]
            ELSE NoKey

\* C33 as claimed: the event type that classification produces, and that the
\* artifact keys carry, is one of the seven event types.
C33_EventTypeIsOneOfSeven ==
    LET EventTypes == {"product_create", "product_update", "product_delete",
                       "store_create", "store_update", "store_delete", "unknown"}
    IN  /\ (Returned("classify") /\ call.ret # Raised) => call.ret.s \in EventTypes
        /\ Returned("artifact_keys") =>
              /\ call.ret.event_type \in EventTypes
              /\ call.ret.raw_s3_key.event_type \in EventTypes

\* the values a payload holds at the places an extractor looks at
C34_At(j, path) ==
    IF Len(path) = 1
    THEN IF IsDict(j) /\ Has(j, path[1]) THEN {Get(j, path[1])} ELSE {}
    ELSE IF IsDict(j) /\ Has(j, path[1]) /\ IsDict(Get(j, path[1]))
            /\ Has(Get(j, path[1]), path[2])
         THEN {Get(Get(j, path[1]), path[2])}
         ELSE {}
C34_Searched(p, paths) == UNION {C34_At(p, path) : path \in paths}

\* C34 as claimed: the extractors return for every payload, a payload whose
\* identifier fields are missing or null at every place an extractor looks at
\* gives a null identifier, and company_id is the store_id.
C34_ExtractorsYieldNullOnAbsence ==
    LET Nowhere(paths) == \A v \in C34_Searched(call.arg, paths) : v = JNull
    IN  /\ \A fn \in {"extract_store_id", "extract_product_id",
                      "extract_company_id", "extract_store_domain"} :
               Returned(fn) => call.ret # Raised
        /\ (Returned("extract_store_id")
            /\ Nowhere({<<"store_id">>, <<"store_id", "id">>, <<"products", "store_id">>}))
              => call.ret = JNull
        /\ (Returned("extract_product_id")
            /\ Nowhere({<<"products", "product_id">>, <<"products", "id">>}))
              => call.ret = JNull
        /\ (Returned("extract_store_domain")
            /\ Nowhere({<<"store_domain">>, <<"store_id", "domain">>,
                       <<"store_id", "store_domain">>, <<"products", "store_domain">>}))
              => call.ret = JNull
        /\ Returned("extract_company_id") => call.ret = get_store_id(call.arg)

\* C35 as claimed: a dict under the products node that has the keys id, name
\* and is_featured comes back without user_id, created_at, last_modified and
\* image and with every other field, whatever its other keys and values are.
C35_CategoryBySignature ==
    (/\ Returned("redact")
     /\ Has(call.arg, "products")
     /\ IsDict(Get(call.arg, "products"))
     /\ Has(Get(call.arg, "products"), "main_category")) =>
        /\ call.ret # Raised
        /\ Get(Get(call.ret, "products"), "main_category")
              = Drop(Get(Get(call.arg, "products"), "main_category"),
                     {"user_id", "created_at", "last_modified", "image"})

(***************************************************************************)
(* The success result, the ledger record, the confinement of the writes.   *)
(***************************************************************************)
\* C36 as claimed: the success result carries store_id and product_id
\* exactly when they were extracted from the payload.
C36_IdsAppearWhenExtracted ==
    \A w \in Workers :
        (Done(w) /\ Status(w) = "success") =>
            /\ inv[w].result.store_id = get_store_id(inv[w].payload)
            /\ inv[w].result.product_id = get_product_id(inv[w].payload)

\* what w's step wrote under the key, if it wrote
C36_Wrote(bucket, key, body) == HasObject(bucket, key) /\ get_object(bucket, key) = body

\* C36 amended: the success result carries store_id and product_id exactly
\* when the extracted value is truthy (an empty string counts as none); the
\* master catalog location is set by the master upsert step exactly when its
\* put succeeded, the store catalog location by the propagation's put exactly
\* when it succeeded, the metadata location by the store-create metadata step
\* exactly when its put succeeded; no other step changes them, and the
\* success result carries them as they are at the registration.
C36_ResultReportsWhatWasDone ==
    [][\A w \in Workers :
          LET l == inv[w]
              ok == inv'[w].faults = l.faults
          IN  Steps(w) =>
               /\ inv'[w].master_catalog_key =
                     IF l.pc = "store_to_master_catalog" /\ ok
                     THEN MasterKey(l.product_id) ELSE l.master_catalog_key
               /\ (l.pc = "store_to_master_catalog" /\ ok) =>
                     C36_Wrote(processedBucket', MasterKey(l.product_id), l.payload)
               /\ inv'[w].store_catalog_key =
                     IF l.pc = "put_store_catalog" /\ ok
                     THEN StoreKey(l.store_id, l.product_id) ELSE l.store_catalog_key
               /\ (l.pc = "put_store_catalog" /\ ok) =>
                     C36_Wrote(processedBucket', StoreKey(l.store_id, l.product_id),
                               l.store_product)
               /\ inv'[w].metadata_s3_key =
                     IF l.pc = "store_store_metadata" /\ ok
                     THEN MetadataKey(l, now) ELSE l.metadata_s3_key
               /\ (l.pc = "store_store_metadata" /\ ok) =>
                     /\ l.event_type = "store_create"
                     /\ C36_Wrote(rawBucket', MetadataKey(l, now), StoreCreateMetadata(l))
               /\ (~ok /\ l.pc \in {"store_to_master_catalog", "put_store_catalog",
                                    "store_store_metadata"}) =>
                     /\ processedBucket' = processedBucket
                     /\ rawBucket' = rawBucket
               /\ (Done(w)' /\ Status(w)' = "success") =>
                     /\ l.pc = "register_event"
                     /\ inv'[w].result.master_catalog_key = l.master_catalog_key
                     /\ inv'[w].result.store_catalog_key = l.store_catalog_key
                     /\ inv'[w].result.metadata_s3_key = l.metadata_s3_key
                     /\ inv'[w].result.store_id =
                           IF Truthy(get_store_id(l.payload))
                           THEN get_store_id(l.payload) ELSE JNull
                     /\ inv'[w].result.product_id =
                           IF Truthy(get_product_id(l.payload))
                           THEN get_product_id(l.payload) ELSE JNull]_vars

\* a success for a payload whose store_id is the empty string, and a success
\* that reports no master location because the upsert failed
C36_Witness ==
    \E w \in Workers :
        /\ Done(w) /\ Status(w) = "success"
        /\ get_store_id(inv[w].payload) = JStr("")
        /\ inv[w].result.store_id = JNull
        /\ Done(Other(w)) /\ Status(Other(w)) = "success"
        /\ "put_master" \in inv[Other(w)].faults
        /\ inv[Other(w)].result.master_catalog_key = NoKey

\* the raw artifact a ledger record points at
C37_Artifact(item) == {o \in rawBucket : o.key = item.s3_key}

\* the record is that of the payload in its artifact
C37_PointsAtArtifact(item) ==
    /\ C37_Artifact(item) # {}
    /\ \A o \in C37_Artifact(item) :
          /\ o.key.kind = "event"
          /\ o.key.suffix = ".json"
          /\ o.key.event_id = item.event_id
          /\ calculate_payload_hash(o.body) = item.payload_hash
          /\ ~detect_raises(o.body)
          /\ item.event_type = detect_event_type(o.body)
          /\ item.routing_target = get_routing_target(detect_event_type(o.body))

\* C37: a record enters the ledger in the registration step of an invocation
\* only, and its raw location is then the key of a raw artifact that this
\* invocation has written, holding the payload of the record's digest under
\* the record's event id; its event_type and routing_target are the
\* classification of that payload and the route of the classification.  Raw
\* artifacts and ledger records are never removed or replaced, so this holds
\* of every record in every state.  The registration writes the ledger only
\* and is the invocation's last step.
C37_LedgerPointsAtRawArtifact ==
    [][/\ \A item \in ledger' \ ledger : C37_PointsAtArtifact(item)
       /\ ledger \subseteq ledger'
       /\ \A o \in rawBucket : o.key.suffix = ".json" => o \in rawBucket'
       /\ \A w \in Workers :
             /\ (inv[w].pc = "register_event" /\ Steps(w)) =>
                   /\ Done(w)'
                   /\ rawBucket' = rawBucket
                   /\ processedBucket' = processedBucket
                   /\ published' = published
                   /\ ledger' # ledger =>
                         /\ Status(w)' = "success"
                         /\ \A item \in ledger' \ ledger :
                               /\ item.s3_key = inv[w].raw_s3_key
                               /\ item.event_id = inv[w].event_id
             /\ (ledger' # ledger /\ Steps(w)) => inv[w].pc = "register_event"
             /\ Done(w) => ~Steps(w)]_vars

\* two invocations have registered, each record with its own artifact
C37_Witness ==
    /\ Cardinality(ledger) = 2
    /\ \A w \in Workers : Done(w) /\ Status(w) = "success"
    /\ \E i, j \in ledger : i.s3_key # j.s3_key /\ i.event_type # j.event_type

\* the master catalog and the store catalogs of the processed bucket
C38_Master(bucket) == {o \in bucket : o.key.kind = "master"}
C38_Stores(bucket) == {o \in bucket : o.key.kind = "store"}

\* the payload is classified as a product event and carries a product_id
C38_ProductEvent(p) ==
    /\ ~detect_raises(p)
    /\ detect_event_type(p) \in ProductEvents
    /\ Truthy(get_product_id(p))

C39_StoreEntryFromOwnEvent ==
    \A w \in Workers :
        inv[w].pc = "put_store_catalog" =>
            inv[w].store_product =
                store_product(inv[w].payload, inv[w].store_id,
                              modifications_price(inv[w].payload))

\* the position of a handler step in the handler's text
C40_Rank(pc) ==
    CASE pc = "idle" -> 0
      [] pc = "check_store_exists" -> 1
      [] pc = "create_store_if_not_exists" -> 2
      [] pc = "check_product_exists" -> 3
      [] pc = "create_product_if_not_exists" -> 4
      [] pc = "store_raw_payload" -> 5
      [] pc = "store_store_metadata" -> 6
      [] pc = "store_to_master_catalog" -> 7
      [] pc = "copy_to_store_catalog" -> 8
      [] pc = "put_store_catalog" -> 9
      [] pc = "delete_from_store_catalog" -> 9
      [] pc = "trigger_kb_refresh" -> 10
      [] pc = "register_event" -> 11
      [] pc = "done" -> 12

\* C40: every invocation that has started reaches its end, whatever fails;
\* at its end, and only there, it has a result, which is one of success,
\* duplicate and error and never changes afterwards; every step moves the
\* invocation forward in the handler's text, so no collaborator call is made
\* twice, and a step records at most one failure, of a call not failed before.
C40_OneOutcomeNoRetry ==
    /\ \A w \in Workers : (inv[w].pc # "idle") ~> Done(w)
    /\ [][\A w \in Workers :
            /\ Done(w)' <=> Status(w)' \in {"success", "duplicate", "error"}
            /\ ~Done(w)' => Status(w)' = "none"
            /\ Done(w) => ~Steps(w)
            /\ Steps(w) =>
                  /\ C40_Rank(inv'[w].pc) > C40_Rank(inv[w].pc)
                  /\ inv[w].faults \subseteq inv'[w].faults
                  /\ Cardinality(inv'[w].faults \ inv[w].faults) <= 1]_vars

\* three invocations' worth of outcomes in two: one ended in error after a
\* failed raw write while the other, with a failed call of its own that the
\* handler only logs, ended in success
C40_Witness ==
    \E w \in Workers :
        /\ Done(w) /\ Status(w) = "error" /\ "put_raw" \in inv[w].faults
        /\ Done(Other(w)) /\ Status(Other(w)) = "success"
        /\ inv[Other(w)].faults # {}
====
